---- MODULE Spec2Model ----
(***************************************************************************)
(* The grid store of easy-csv (src/unnamed/part_002, the zustand store      *)
(* `useGridStore`): table snapshot, undo/redo stacks with coalescing and   *)
(* batching, and the tab (session) table.                                  *)
(*                                                                         *)
(* Representation of JavaScript values.                                    *)
(*   - A string is a sequence of one-character strings: "ab" is            *)
(*     <<"a","b">>, the empty string is <<>>.                              *)
(*   - A cell or header is a string, Null (null) or Undef (undefined, or   *)
(*     an array hole inside a row: the store reads both as undefined and   *)
(*     cloneSnapshot's spread turns a hole into undefined).                *)
(*   - A JavaScript array is the sequence of its indexed elements          *)
(*     0..length-1 (TLA+ index = JavaScript index + 1).  A write to a      *)
(*     negative index creates a non-index property: it changes neither     *)
(*     the length nor any element, and cloneSnapshot drops it.             *)
(*   - An element of `rows` is a row, Hole (an index below length that     *)
(*     holds nothing: map and splice keep it) or UndefRow (the value       *)
(*     undefined stored as an element: spreading a hole produces it).      *)
(***************************************************************************)
EXTENDS Integers, Sequences, FiniteSets, TLC

VARIABLES
  headers, rows, delimiter, newline, filePath,   \* Snapshot fields of the live state
  dirty, meta, filters, undoStack, redoStack,    \* GridState
  batchDepth, batchLabel, batchSnapshot,         \* _batchDepth, _batchLabel, _batchSnapshot
  tabs, activeTabId, tabSnapshots,               \* tab management
  nextTabId,                                     \* module-level _nextTabId
  now,                                           \* Date.now()
  threw,                                         \* the last call ended in a TypeError
  obs,                                           \* observer: history the claims refer to
  scope                                          \* the scenario explored: inputs and observer

storeVars == <<headers, rows, delimiter, newline, filePath, dirty, meta, filters,
               undoStack, redoStack, batchDepth, batchLabel, batchSnapshot,
               tabs, activeTabId, tabSnapshots, nextTabId>>
vars == <<storeVars, now, threw, obs, scope>>

----------------------------------------------------------------------------
(* JavaScript values *)

Null == <<"null">>
Undef == <<"undefined">>
Hole == << <<"hole">> >>
UndefRow == << <<"undefinedrow">> >>
NullPath == "<null>"
NullLabel == "<null>"
NoSnapshot == [none |-> TRUE]
NoTab == 0

Min(a, b) == IF a < b THEN a ELSE b
Max(a, b) == IF a > b THEN a ELSE b

IsNullish(v) == v = Null \/ v = Undef

Digit(n) == CASE n = 0 -> "0" [] n = 1 -> "1" [] n = 2 -> "2" [] n = 3 -> "3"
              [] n = 4 -> "4" [] n = 5 -> "5" [] n = 6 -> "6" [] n = 7 -> "7"
              [] n = 8 -> "8" [] OTHER -> "9"

\* String(n) for 0 <= n < 100.
NatToStr(n) == IF n < 10 THEN <<Digit(n)>> ELSE <<Digit(n \div 10), Digit(n % 10)>>

\* A numeric cell (CellValue = string | number | null), held by its decimal digits.
Num(n) == <<"number">> \o NatToStr(n)
IsNum(v) == Len(v) > 0 /\ v[1] = "number"

\* A stringification that leaves null, undefined and numbers as they are.
ToStrRaw(v) == v

\* String(v ?? '') and the `current === null || current === undefined ? '' : String(current)`
\* of updateCell: the string of a cell.
ToStr(v) == IF IsNullish(v) THEN <<>> ELSE IF IsNum(v) THEN Tail(v) ELSE v

\* arr[i] for a JavaScript index i: undefined outside 0..length-1.
JsGet(arr, i) == IF i >= 0 /\ i < Len(arr) THEN arr[i + 1] ELSE Undef

\* rows[i] as the code reads it: a hole and an absent index read as undefined
\* (UndefRow is the value undefined where a row is expected).
RowAt(rs, i) ==
  IF i >= 0 /\ i < Len(rs) /\ rs[i + 1] # Hole /\ rs[i + 1] # UndefRow
  THEN rs[i + 1] ELSE UndefRow

\* rows[r]?.[c]
CellAt(rs, r, c) == IF RowAt(rs, r) = UndefRow THEN Undef ELSE JsGet(RowAt(rs, r), c)

\* arr[i] = v.  `fill` is what the skipped indices hold (a hole).
ArraySet(arr, i, v, fill) ==
  IF i < 0 THEN arr
  ELSE IF i < Len(arr) THEN [arr EXCEPT ![i + 1] = v]
  ELSE arr \o [k \in 1..(i - Len(arr)) |-> fill] \o <<v>>

\* Array.prototype.splice(start, deleteCount, ...items): the array afterwards and
\* the removed elements.
Splice(arr, start, deleteCount, items) ==
  LET len == Len(arr)
      s == IF start < 0 THEN Max(len + start, 0) ELSE Min(start, len)
      k == Min(Max(deleteCount, 0), len - s)
  IN [arr |-> SubSeq(arr, 1, s) \o items \o SubSeq(arr, s + k + 1, len),
      removed |-> SubSeq(arr, s + 1, s + k)]

\* [...extracted]: spreading an array of rows reads a hole as undefined.
SpreadRows(rs) == [i \in 1..Len(rs) |-> IF rs[i] = Hole THEN UndefRow ELSE rs[i]]

\* `Column ${nextIndex}`
ColumnName(n) == <<"C", "o", "l", "u", "m", "n", " ">> \o NatToStr(n)

\* new Array(columnCount).fill('')
EmptyRow(n) == [k \in 1..n |-> <<>>]

----------------------------------------------------------------------------
(* Helpers of the store *)

MAX_UNDO_HISTORY == 50
COALESCE_WINDOW_MS == 2000

Snap(h, r, d, n, p) == [headers |-> h, rows |-> r, delimiter |-> d, newline |-> n, filePath |-> p]

LiveSnapshot == Snap(headers, rows, delimiter, newline, filePath)

\* cloneSnapshot throws (TypeError: undefined is not iterable) when an element of
\* rows is the value undefined: `[...row]` of undefined.
CloneThrows(s) == \E i \in 1..Len(s.rows) : s.rows[i] = UndefRow

\* cloneSnapshot: a deep copy; the copy has the same indexed elements.
cloneSnapshot(s) == Snap(s.headers, s.rows, s.delimiter, s.newline, s.filePath)

createEmptySnapshot == Snap(<<>>, <<>>, ",", "LF", NullPath)

\* A trim that keeps the oldest entries and drops the newest.
trimStackKeepOldest(stack) ==
  IF Len(stack) > MAX_UNDO_HISTORY
  THEN SubSeq(stack, 1, MAX_UNDO_HISTORY)
  ELSE stack

trimStack(stack) ==
  IF Len(stack) > MAX_UNDO_HISTORY
  THEN SubSeq(stack, Len(stack) - MAX_UNDO_HISTORY + 1, Len(stack))
  ELSE stack

NoKey == [kind |-> "none", row |-> 0, col |-> 0]
CellKey(r, c) == [kind |-> "cell", row |-> r, col |-> c]
HeaderKey(c) == [kind |-> "header", row |-> 0, col |-> c]

Entry(s, l, t, k) == [snapshot |-> s, label |-> l, timestamp |-> t, coalesceKey |-> k]

----------------------------------------------------------------------------
(* The mutators: what each operation's callback does to the draft snapshot *)

\* updateCell's mutator: draft.rows[r] = draft.rows[r] ?? []; draft.rows[r][c] = value
MutUpdateCell(d, rowIndex, columnIndex, value) ==
  LET row0 == RowAt(d.rows, rowIndex)
      row == IF row0 = UndefRow THEN <<>> ELSE row0
  IN [d EXCEPT !.rows = ArraySet(d.rows, rowIndex, ArraySet(row, columnIndex, value, Undef), Hole)]

\* draft.headers.length || (draft.rows[0]?.length ?? 0)
ColumnCountOf(d) ==
  IF Len(d.headers) # 0 THEN Len(d.headers)
  ELSE IF RowAt(d.rows, 0) = UndefRow THEN 0 ELSE Len(RowAt(d.rows, 0))

MutAddRow(d) == [d EXCEPT !.rows = Append(d.rows, EmptyRow(ColumnCountOf(d)))]

\* rows.map skips holes and keeps them (here and in the mutators below).
MutAddColumn(d) ==
  LET AddCell(row) == Append(row, <<>>)
  IN [d EXCEPT !.headers = Append(d.headers, ColumnName(Len(d.headers) + 1)),
               !.rows = [i \in 1..Len(d.rows) |->
                          IF d.rows[i] = Hole THEN Hole ELSE AddCell(d.rows[i])]]

MutInsertRowAt(d, rowIndex) ==
  [d EXCEPT !.rows = Splice(d.rows, rowIndex, 0, <<EmptyRow(ColumnCountOf(d))>>).arr]

MutInsertColumnAt(d, columnIndex) ==
  LET InsCell(row) == Splice(row, columnIndex, 0, << <<>> >>).arr
  IN [d EXCEPT !.headers = Splice(d.headers, columnIndex, 0, <<ColumnName(Len(d.headers) + 1)>>).arr,
               !.rows = [i \in 1..Len(d.rows) |->
                          IF d.rows[i] = Hole THEN Hole ELSE InsCell(d.rows[i])]]

MutRemoveRow(d, rowIndex) == [d EXCEPT !.rows = Splice(d.rows, rowIndex, 1, <<>>).arr]

\* row.filter((_, idx) => idx !== columnIndex)
FilterOutIndex(row, columnIndex) ==
  IF columnIndex >= 0 /\ columnIndex < Len(row)
  THEN SubSeq(row, 1, columnIndex) \o SubSeq(row, columnIndex + 2, Len(row))
  ELSE row

MutRemoveColumn(d, columnIndex) ==
  LET Drop(row) == FilterOutIndex(row, columnIndex)
  IN [d EXCEPT !.headers = Splice(d.headers, columnIndex, 1, <<>>).arr,
               !.rows = [i \in 1..Len(d.rows) |->
                          IF d.rows[i] = Hole THEN Hole ELSE Drop(d.rows[i])]]

\* A no-move zone that ends at fromEnd.
MoveIsNoopShort(fromStart, fromEnd, toIndex) == toIndex >= fromStart /\ toIndex <= fromEnd

\* The `toIndex >= fromStart && toIndex <= fromEnd + 1` early return of moveRows and moveColumns.
MoveIsNoop(fromStart, fromEnd, toIndex) == toIndex >= fromStart /\ toIndex <= fromEnd + 1

\* An insertion point that ignores the rows taken out before it.
InsertAtRaw(fromStart, fromEnd, toIndex) == toIndex

InsertAt(fromStart, fromEnd, toIndex) ==
  IF toIndex > fromStart THEN toIndex - (fromEnd - fromStart + 1) ELSE toIndex

MutMoveRows(d, fromStart, fromEnd, toIndex) ==
  LET count == fromEnd - fromStart + 1
      cut == Splice(d.rows, fromStart, count, <<>>)
  IN [d EXCEPT !.rows = Splice(cut.arr, InsertAt(fromStart, fromEnd, toIndex), 0,
                               SpreadRows(cut.removed)).arr]

\* extracted = arr.splice(fromStart, count); arr.splice(insertAt, 0, ...extracted)
MoveWithin(arr, fromStart, fromEnd, toIndex) ==
  LET cut == Splice(arr, fromStart, fromEnd - fromStart + 1, <<>>)
  IN Splice(cut.arr, InsertAt(fromStart, fromEnd, toIndex), 0, cut.removed).arr

\* A column move that reorders the headers and leaves the cells where they are.
MutMoveColumnsHeadersOnly(d, fromStart, fromEnd, toIndex) ==
  [d EXCEPT !.headers = MoveWithin(d.headers, fromStart, fromEnd, toIndex)]

MutMoveColumns(d, fromStart, fromEnd, toIndex) ==
  LET Mv(row) == MoveWithin(row, fromStart, fromEnd, toIndex)
  IN [d EXCEPT !.headers = MoveWithin(d.headers, fromStart, fromEnd, toIndex),
               !.rows = [i \in 1..Len(d.rows) |->
                          IF d.rows[i] = Hole THEN Hole ELSE Mv(d.rows[i])]]

MutUpdateHeader(d, columnIndex, value) ==
  [d EXCEPT !.headers = ArraySet(d.headers, columnIndex, value, Undef)]

\* The case folding of the regular expression's `i` flag on the model's alphabet.
UpperLetters ==
  <<"A", "B", "C", "D", "E", "F", "G", "H", "I", "J", "K", "L", "M">> \o
  <<"N", "O", "P", "Q", "R", "S", "T", "U", "V", "W", "X", "Y", "Z">>
LowerLetters ==
  <<"a", "b", "c", "d", "e", "f", "g", "h", "i", "j", "k", "l", "m">> \o
  <<"n", "o", "p", "q", "r", "s", "t", "u", "v", "w", "x", "y", "z">>

Lower(ch) ==
  IF \E k \in 1..Len(UpperLetters) : UpperLetters[k] = ch
  THEN LowerLetters[CHOOSE k \in 1..Len(UpperLetters) : UpperLetters[k] = ch]
  ELSE ch

\* Whether `term` (non-empty) matches s at position i (1-based), ignoring case.
MatchesAt(s, term, i) ==
  /\ i + Len(term) - 1 <= Len(s)
  /\ \A k \in 1..Len(term) : Lower(s[i + k - 1]) = Lower(term[k])

\* str.replace(new RegExp(escaped, 'gi'), replacement) from position i on: every
\* match, left to right, without overlap.  The empty term matches before every
\* character and at the end.
RECURSIVE ReplaceFrom(_, _, _, _)
ReplaceFrom(s, term, replacement, i) ==
  IF Len(term) = 0
  THEN IF i > Len(s) THEN replacement
       ELSE replacement \o <<s[i]>> \o ReplaceFrom(s, term, replacement, i + 1)
  ELSE IF i > Len(s) THEN <<>>
       ELSE IF MatchesAt(s, term, i)
            THEN replacement \o ReplaceFrom(s, term, replacement, i + Len(term))
            ELSE <<s[i]>> \o ReplaceFrom(s, term, replacement, i + 1)

ReplaceStr(s, term, replacement) == ReplaceFrom(s, term, replacement, 1)

\* One iteration of replaceAll's loop, for the match {row, col}.
ReplaceOne(d, term, replacement, m) ==
  IF m.row = -1
  THEN [d EXCEPT !.headers =
          ArraySet(d.headers, m.col,
                   ReplaceStr(ToStr(JsGet(d.headers, m.col)), term, replacement), Undef)]
  ELSE LET row0 == RowAt(d.rows, m.row)
           row == IF row0 = UndefRow THEN <<>> ELSE row0
           cell == ReplaceStr(ToStr(JsGet(row, m.col)), term, replacement)
       IN [d EXCEPT !.rows = ArraySet(d.rows, m.row, ArraySet(row, m.col, cell, Undef), Hole)]

RECURSIVE MutReplaceAll(_, _, _, _)
MutReplaceAll(d, term, replacement, matches) ==
  IF matches = <<>> THEN d
  ELSE MutReplaceAll(ReplaceOne(d, term, replacement, Head(matches)), term, replacement,
                     Tail(matches))

----------------------------------------------------------------------------
(* The live (active) session and the stored (inactive) sessions *)

\* A capture that loses the session's undo history.
captureActiveTabNoHistory ==
  [headers |-> headers, rows |-> rows, delimiter |-> delimiter, newline |-> newline,
   filePath |-> filePath, dirty |-> dirty, meta |-> meta, filters |-> filters,
   undoStack |-> <<>>, redoStack |-> redoStack, batchDepth |-> batchDepth,
   batchLabel |-> batchLabel, batchSnapshot |-> batchSnapshot]

\* A capture that ends the batch the session was in.
captureActiveTabNoBatch ==
  [headers |-> headers, rows |-> rows, delimiter |-> delimiter, newline |-> newline,
   filePath |-> filePath, dirty |-> dirty, meta |-> meta, filters |-> filters,
   undoStack |-> undoStack, redoStack |-> redoStack, batchDepth |-> 0,
   batchLabel |-> NullLabel, batchSnapshot |-> NoSnapshot]

captureActiveTab ==
  [headers |-> headers, rows |-> rows, delimiter |-> delimiter, newline |-> newline,
   filePath |-> filePath, dirty |-> dirty, meta |-> meta, filters |-> filters,
   undoStack |-> undoStack, redoStack |-> redoStack, batchDepth |-> batchDepth,
   batchLabel |-> batchLabel, batchSnapshot |-> batchSnapshot]

\* A restore that brings the session back without its undo history.
restoreFromTabSnapshotNoHistory(snap) ==
  /\ headers' = snap.headers
  /\ rows' = snap.rows
  /\ delimiter' = snap.delimiter
  /\ newline' = snap.newline
  /\ filePath' = snap.filePath
  /\ dirty' = snap.dirty
  /\ meta' = snap.meta
  /\ filters' = snap.filters
  /\ undoStack' = <<>>
  /\ redoStack' = snap.redoStack
  /\ batchDepth' = snap.batchDepth
  /\ batchLabel' = snap.batchLabel
  /\ batchSnapshot' = snap.batchSnapshot

\* The flat session fields of the next state are those of `snap`.
restoreFromTabSnapshot(snap) ==
  /\ headers' = snap.headers
  /\ rows' = snap.rows
  /\ delimiter' = snap.delimiter
  /\ newline' = snap.newline
  /\ filePath' = snap.filePath
  /\ dirty' = snap.dirty
  /\ meta' = snap.meta
  /\ filters' = snap.filters
  /\ undoStack' = snap.undoStack
  /\ redoStack' = snap.redoStack
  /\ batchDepth' = snap.batchDepth
  /\ batchLabel' = snap.batchLabel
  /\ batchSnapshot' = snap.batchSnapshot

NoFilters == [c \in {} |-> <<>>]

\* A load that keeps the filters of the session it replaces.
FreshSessionKeepsFilters(doc) ==
  [headers |-> doc.headers, rows |-> doc.rows, delimiter |-> doc.delimiter,
   newline |-> doc.newline, filePath |-> doc.filePath, dirty |-> FALSE, meta |-> doc.meta,
   filters |-> filters, undoStack |-> <<>>, redoStack |-> <<>>, batchDepth |-> 0,
   batchLabel |-> NullLabel, batchSnapshot |-> NoSnapshot]

\* A session freshly loaded from `doc`: no history, no filters, clean, no batch.
FreshSession(doc) ==
  [headers |-> doc.headers, rows |-> doc.rows, delimiter |-> doc.delimiter,
   newline |-> doc.newline, filePath |-> doc.filePath, dirty |-> FALSE, meta |-> doc.meta,
   filters |-> NoFilters, undoStack |-> <<>>, redoStack |-> <<>>, batchDepth |-> 0,
   batchLabel |-> NullLabel, batchSnapshot |-> NoSnapshot]

\* `{...createEmptySnapshot(), dirty: false, meta: {rowCount: 0, columnCount: 0}, ...}`
EmptyDoc ==
  [headers |-> createEmptySnapshot.headers, rows |-> createEmptySnapshot.rows,
   delimiter |-> createEmptySnapshot.delimiter, newline |-> createEmptySnapshot.newline,
   filePath |-> createEmptySnapshot.filePath, meta |-> [rowCount |-> 0, columnCount |-> 0]]

\* An id generator that hands out one id again and again.
generateTabIdFixed == Min(nextTabId, 1)

\* generateTabId(): the id made from the counter, which openTab and newTab then advance.
generateTabId == nextTabId

TabInfo(id, path, d) == [id |-> id, filePath |-> path, dirty |-> d]

\* tabs.map(t => t.id === activeTabId ? {...t, dirty, filePath} : t)
SyncTab(ts, path, d) ==
  [i \in 1..Len(ts) |-> IF ts[i].id = activeTabId THEN TabInfo(ts[i].id, path, d) ELSE ts[i]]

\* `delete snapshots[id]`
DeleteKey(f, id) == [k \in DOMAIN f \ {id} |-> f[k]]

\* `snapshots[id] = v`
PutKey(f, id, v) == [k \in DOMAIN f \cup {id} |-> IF k = id THEN v ELSE f[k]]

\* tabs.findIndex(t => t.id === tabId), 0-based; -1 when absent.
FindTabIndex(ts, tabId) ==
  IF \E i \in 1..Len(ts) : ts[i].id = tabId
  THEN (CHOOSE i \in 1..Len(ts) : ts[i].id = tabId /\ \A j \in 1..(i - 1) : ts[j].id # tabId) - 1
  ELSE -1

\* tabs.filter(t => t.id !== tabId)
RECURSIVE FilterTabs(_, _)
FilterTabs(ts, tabId) ==
  IF ts = <<>> THEN <<>>
  ELSE IF Head(ts).id = tabId THEN FilterTabs(Tail(ts), tabId)
       ELSE <<Head(ts)>> \o FilterTabs(Tail(ts), tabId)

----------------------------------------------------------------------------
(* applyMutation *)

\* The callback passed to zustand's set throws: the state is not replaced and the
\* exception reaches the caller.
Throws == /\ threw' = TRUE
          /\ UNCHANGED <<storeVars, now>>

\* A store that never merges an edit into the top entry.
CoalescesNever(key) == FALSE

\* A store that merges same-key edits however old the top entry is.
CoalescesAnyAge(key) ==
  /\ key # NoKey
  /\ undoStack # <<>>
  /\ undoStack[Len(undoStack)].coalesceKey = key

\* The top undo entry has this key and is younger than the coalescing window.
Coalesces(key) ==
  /\ key # NoKey
  /\ undoStack # <<>>
  /\ undoStack[Len(undoStack)].coalesceKey = key
  /\ now - undoStack[Len(undoStack)].timestamp < COALESCE_WINDOW_MS

\* A store that merges an edit without refreshing the top entry's timestamp.
UndoAfterMutationFixedWindow(label, key) ==
  IF Coalesces(key)
  THEN undoStack
  ELSE trimStack(Append(undoStack, Entry(cloneSnapshot(LiveSnapshot), label, now, key)))

\* The undo stack after a mutation outside a batch.
UndoAfterMutation(label, key) ==
  IF Coalesces(key)
  THEN [undoStack EXCEPT ![Len(undoStack)].timestamp = now]
  ELSE trimStack(Append(undoStack, Entry(cloneSnapshot(LiveSnapshot), label, now, key)))

\* applyMutation(label, mutator, coalesceKey), `next` being the draft after the mutator.
applyMutation(label, next, key) ==
  IF CloneThrows(LiveSnapshot) THEN Throws
  ELSE
    /\ headers' = next.headers
    /\ rows' = next.rows
    /\ delimiter' = next.delimiter
    /\ newline' = next.newline
    /\ filePath' = next.filePath
    /\ dirty' = TRUE
    /\ meta' = [rowCount |-> Len(next.rows), columnCount |-> Len(next.headers)]
    /\ IF batchDepth > 0
       THEN /\ batchSnapshot' = IF batchSnapshot = NoSnapshot
                                THEN cloneSnapshot(LiveSnapshot) ELSE batchSnapshot
            /\ UNCHANGED <<undoStack, redoStack>>
       ELSE /\ undoStack' = UndoAfterMutation(label, key)
            /\ redoStack' = <<>>
            /\ UNCHANGED batchSnapshot
    /\ threw' = FALSE
    /\ UNCHANGED <<filters, batchDepth, batchLabel, tabs, activeTabId, tabSnapshots,
                   nextTabId, now>>

\* An early `return` of an operation: nothing changes.
Returns == /\ threw' = FALSE
           /\ UNCHANGED <<storeVars, now>>

----------------------------------------------------------------------------
(* Mutations *)

updateCell(rowIndex, columnIndex, value) ==
  IF ToStr(CellAt(rows, rowIndex, columnIndex)) = value
  THEN Returns
  ELSE applyMutation("Edit Cell", MutUpdateCell(LiveSnapshot, rowIndex, columnIndex, value),
                     CellKey(rowIndex, columnIndex))

addRow == applyMutation("Add Row", MutAddRow(LiveSnapshot), NoKey)

addColumn == applyMutation("Add Column", MutAddColumn(LiveSnapshot), NoKey)

insertRowAt(rowIndex) == applyMutation("Insert Row", MutInsertRowAt(LiveSnapshot, rowIndex), NoKey)

insertColumnAt(columnIndex) ==
  applyMutation("Insert Column", MutInsertColumnAt(LiveSnapshot, columnIndex), NoKey)

removeRow(rowIndex) == applyMutation("Delete Row", MutRemoveRow(LiveSnapshot, rowIndex), NoKey)

removeColumn(columnIndex) ==
  applyMutation("Delete Column", MutRemoveColumn(LiveSnapshot, columnIndex), NoKey)

moveRows(fromStart, fromEnd, toIndex) ==
  IF MoveIsNoop(fromStart, fromEnd, toIndex) THEN Returns
  ELSE applyMutation("Move Row(s)", MutMoveRows(LiveSnapshot, fromStart, fromEnd, toIndex), NoKey)

moveColumns(fromStart, fromEnd, toIndex) ==
  IF MoveIsNoop(fromStart, fromEnd, toIndex) THEN Returns
  ELSE applyMutation("Move Column(s)",
                     MutMoveColumns(LiveSnapshot, fromStart, fromEnd, toIndex), NoKey)

updateHeader(columnIndex, value) ==
  IF JsGet(headers, columnIndex) = value THEN Returns
  ELSE applyMutation("Edit Header", MutUpdateHeader(LiveSnapshot, columnIndex, value),
                     HeaderKey(columnIndex))

\* A replaceAll that records every match as an edit of its own.
replaceAllPerMatch(term, replacement, matches) ==
  IF Len(matches) = 0 THEN Returns
  ELSE
    LET next == MutReplaceAll(LiveSnapshot, term, replacement, matches)
        StepBefore(k) == MutReplaceAll(LiveSnapshot, term, replacement, SubSeq(matches, 1, k - 1))
    IN /\ headers' = next.headers
       /\ rows' = next.rows
       /\ dirty' = TRUE
       /\ meta' = [rowCount |-> Len(next.rows), columnCount |-> Len(next.headers)]
       /\ undoStack' = trimStack(undoStack \o
                         [k \in 1..Len(matches) |-> Entry(StepBefore(k), "Replace All", now, NoKey)])
       /\ redoStack' = <<>>
       /\ threw' = FALSE
       /\ UNCHANGED <<delimiter, newline, filePath, filters, batchDepth, batchLabel,
                      batchSnapshot, tabs, activeTabId, tabSnapshots, nextTabId, now>>

\* A replaceAll without the early return on an empty match list.
replaceAllUnguarded(term, replacement, matches) ==
  applyMutation("Replace All", MutReplaceAll(LiveSnapshot, term, replacement, matches), NoKey)

replaceAll(term, replacement, matches) ==
  IF Len(matches) = 0 THEN Returns
  ELSE applyMutation("Replace All", MutReplaceAll(LiveSnapshot, term, replacement, matches),
                     NoKey)

----------------------------------------------------------------------------
(* Tab actions *)

\* The stored sessions when the outgoing active session is not captured.
WithActiveNotCaptured == tabSnapshots

\* The stored sessions after the outgoing active session (if any) is captured.
WithActiveCaptured ==
  IF activeTabId # NoTab THEN PutKey(tabSnapshots, activeTabId, captureActiveTab)
  ELSE tabSnapshots

\* The tab list with the outgoing tab's lightweight info synced (if any tab is active).
WithActiveSynced == IF activeTabId # NoTab THEN SyncTab(tabs, filePath, dirty) ELSE tabs

openTab(doc) ==
  /\ restoreFromTabSnapshot(FreshSession(doc))
  /\ tabs' = Append(WithActiveSynced, TabInfo(generateTabId, doc.filePath, FALSE))
  /\ activeTabId' = generateTabId
  /\ tabSnapshots' = WithActiveCaptured
  /\ nextTabId' = nextTabId + 1
  /\ threw' = FALSE
  /\ UNCHANGED now

\* A switch that does not look the target up before leaving the active tab.
switchTabUnchecked(tabId) ==
  IF tabId = activeTabId THEN Returns
  ELSE /\ restoreFromTabSnapshot(IF tabId \in DOMAIN tabSnapshots THEN tabSnapshots[tabId]
                                 ELSE FreshSession(EmptyDoc))
       /\ tabs' = SyncTab(tabs, filePath, dirty)
       /\ activeTabId' = tabId
       /\ tabSnapshots' = DeleteKey(WithActiveCaptured, tabId)
       /\ threw' = FALSE
       /\ UNCHANGED <<nextTabId, now>>

switchTab(tabId) ==
  IF tabId = activeTabId \/ tabId \notin DOMAIN tabSnapshots THEN Returns
  ELSE /\ restoreFromTabSnapshot(tabSnapshots[tabId])
       /\ tabs' = SyncTab(tabs, filePath, dirty)
       /\ activeTabId' = tabId
       /\ tabSnapshots' = DeleteKey(WithActiveCaptured, tabId)
       /\ threw' = FALSE
       /\ UNCHANGED <<nextTabId, now>>

closeTab(tabId) ==
  LET tabIndex == FindTabIndex(tabs, tabId)
      newTabs == FilterTabs(tabs, tabId)
      updatedSnapshots == DeleteKey(tabSnapshots, tabId)
      newActiveIndex == Min(tabIndex, Len(newTabs) - 1)
      newActiveId == newTabs[newActiveIndex + 1].id
  IN IF tabIndex = -1 THEN Returns
     ELSE /\ IF tabId = activeTabId
             THEN IF Len(newTabs) = 0
                  THEN /\ restoreFromTabSnapshot(FreshSession(EmptyDoc))
                       /\ tabs' = <<>>
                       /\ activeTabId' = NoTab
                       /\ tabSnapshots' = [k \in {} |-> captureActiveTab]
                  ELSE IF newActiveId \in DOMAIN updatedSnapshots
                       THEN /\ restoreFromTabSnapshot(updatedSnapshots[newActiveId])
                            /\ tabs' = newTabs
                            /\ activeTabId' = newActiveId
                            /\ tabSnapshots' = DeleteKey(updatedSnapshots, newActiveId)
                       ELSE /\ restoreFromTabSnapshot(captureActiveTab)
                            /\ tabs' = newTabs
                            /\ activeTabId' = newActiveId
                            /\ tabSnapshots' = updatedSnapshots
             ELSE /\ restoreFromTabSnapshot(captureActiveTab)
                  /\ tabs' = newTabs
                  /\ tabSnapshots' = updatedSnapshots
                  /\ UNCHANGED activeTabId
          /\ threw' = FALSE
          /\ UNCHANGED <<nextTabId, now>>

newTab ==
  /\ restoreFromTabSnapshot(FreshSession(EmptyDoc))
  /\ tabs' = Append(WithActiveSynced, TabInfo(generateTabId, NullPath, FALSE))
  /\ activeTabId' = generateTabId
  /\ tabSnapshots' = WithActiveCaptured
  /\ nextTabId' = nextTabId + 1
  /\ threw' = FALSE
  /\ UNCHANGED now

----------------------------------------------------------------------------
(* Data loading / clearing, non-undoable actions *)

setData(doc) ==
  /\ restoreFromTabSnapshot(FreshSession(doc))
  /\ tabs' = SyncTab(tabs, doc.filePath, FALSE)
  /\ threw' = FALSE
  /\ UNCHANGED <<activeTabId, tabSnapshots, nextTabId, now>>

\* A setFilter that marks the document as changed.
setFilterDirty(columnIndex, value) ==
  /\ filters' = PutKey(filters, columnIndex, value)
  /\ dirty' = TRUE
  /\ threw' = FALSE
  /\ UNCHANGED <<headers, rows, delimiter, newline, filePath, meta, undoStack,
                 redoStack, batchDepth, batchLabel, batchSnapshot, tabs, activeTabId,
                 tabSnapshots, nextTabId, now>>

setFilter(columnIndex, value) ==
  /\ filters' = PutKey(filters, columnIndex, value)
  /\ threw' = FALSE
  /\ UNCHANGED <<headers, rows, delimiter, newline, filePath, dirty, meta, undoStack,
                 redoStack, batchDepth, batchLabel, batchSnapshot, tabs, activeTabId,
                 tabSnapshots, nextTabId, now>>

clear ==
  /\ restoreFromTabSnapshot(FreshSession(EmptyDoc))
  /\ tabs' = SyncTab(tabs, NullPath, FALSE)
  /\ threw' = FALSE
  /\ UNCHANGED <<activeTabId, tabSnapshots, nextTabId, now>>

\* markSaved(filePath): `filePath ?? state.filePath`, and for the active tab's info
\* `filePath ?? state.filePath ?? t.filePath`.
markSaved(path) ==
  LET newPath == IF path # NullPath THEN path ELSE filePath
      TabPath(t) == IF newPath # NullPath THEN newPath ELSE t.filePath
  IN /\ dirty' = FALSE
     /\ filePath' = newPath
     /\ tabs' = [i \in 1..Len(tabs) |->
                  IF tabs[i].id = activeTabId
                  THEN TabInfo(tabs[i].id, TabPath(tabs[i]), FALSE) ELSE tabs[i]]
     /\ threw' = FALSE
     /\ UNCHANGED <<headers, rows, delimiter, newline, meta, filters, undoStack, redoStack,
                    batchDepth, batchLabel, batchSnapshot, activeTabId, tabSnapshots,
                    nextTabId, now>>

----------------------------------------------------------------------------
(* Undo / Redo *)

\* An install of a snapshot that keeps the counts of the table it replaces.
InstallSnapshotKeepsMeta(s) ==
  /\ headers' = s.headers
  /\ rows' = s.rows
  /\ delimiter' = s.delimiter
  /\ newline' = s.newline
  /\ filePath' = s.filePath
  /\ dirty' = TRUE
  /\ meta' = meta

\* `{...state, ...top.snapshot, dirty: true, meta: {...}}`
InstallSnapshot(s) ==
  /\ headers' = s.headers
  /\ rows' = s.rows
  /\ delimiter' = s.delimiter
  /\ newline' = s.newline
  /\ filePath' = s.filePath
  /\ dirty' = TRUE
  /\ meta' = [rowCount |-> Len(s.rows), columnCount |-> Len(s.headers)]

\* A redo entry whose snapshot is the entry being undone, not the state being left.
RedoEntryStale(top) == Entry(top.snapshot, top.label, now, NoKey)

\* undo's redoEntry: {snapshot: cloneSnapshot(state), label: top.label, timestamp: Date.now()}
RedoEntry(top) == Entry(cloneSnapshot(LiveSnapshot), top.label, now, NoKey)

\* An undo that marks the document dirty even when there is nothing to undo.
undoMarksDirty ==
  IF undoStack = <<>>
  THEN /\ dirty' = TRUE
       /\ threw' = FALSE
       /\ UNCHANGED <<headers, rows, delimiter, newline, filePath, meta, filters, undoStack,
                      redoStack, batchDepth, batchLabel, batchSnapshot, tabs, activeTabId,
                      tabSnapshots, nextTabId, now>>
  ELSE IF CloneThrows(LiveSnapshot) THEN Throws
  ELSE LET top == undoStack[Len(undoStack)]
       IN /\ InstallSnapshot(top.snapshot)
          /\ undoStack' = SubSeq(undoStack, 1, Len(undoStack) - 1)
          /\ redoStack' = trimStack(Append(redoStack, RedoEntry(top)))
          /\ threw' = FALSE
          /\ UNCHANGED <<filters, batchDepth, batchLabel, batchSnapshot, tabs, activeTabId,
                         tabSnapshots, nextTabId, now>>

undo ==
  IF undoStack = <<>> THEN Returns
  ELSE IF CloneThrows(LiveSnapshot) THEN Throws
  ELSE LET top == undoStack[Len(undoStack)]
       IN /\ InstallSnapshot(top.snapshot)
          /\ undoStack' = SubSeq(undoStack, 1, Len(undoStack) - 1)
          /\ redoStack' = trimStack(Append(redoStack, RedoEntry(top)))
          /\ threw' = FALSE
          /\ UNCHANGED <<filters, batchDepth, batchLabel, batchSnapshot, tabs, activeTabId,
                         tabSnapshots, nextTabId, now>>

redo ==
  IF redoStack = <<>> THEN Returns
  ELSE IF CloneThrows(LiveSnapshot) THEN Throws
  ELSE LET top == redoStack[Len(redoStack)]
       IN /\ InstallSnapshot(top.snapshot)
          /\ redoStack' = SubSeq(redoStack, 1, Len(redoStack) - 1)
          /\ undoStack' = trimStack(Append(undoStack,
                              Entry(cloneSnapshot(LiveSnapshot), top.label, now, NoKey)))
          /\ threw' = FALSE
          /\ UNCHANGED <<filters, batchDepth, batchLabel, batchSnapshot, tabs, activeTabId,
                         tabSnapshots, nextTabId, now>>

----------------------------------------------------------------------------
(* Batch / Transaction API *)

\* A beginBatch that takes the label of the innermost batch.
beginBatchLastLabel(label) ==
  /\ batchDepth' = batchDepth + 1
  /\ batchLabel' = label
  /\ threw' = FALSE
  /\ UNCHANGED <<headers, rows, delimiter, newline, filePath, dirty, meta, filters,
                 undoStack, redoStack, batchSnapshot, tabs, activeTabId, tabSnapshots,
                 nextTabId, now>>

beginBatch(label) ==
  /\ batchDepth' = batchDepth + 1
  /\ batchLabel' = IF batchLabel # NullLabel THEN batchLabel ELSE label
  /\ threw' = FALSE
  /\ UNCHANGED <<headers, rows, delimiter, newline, filePath, dirty, meta, filters,
                 undoStack, redoStack, batchSnapshot, tabs, activeTabId, tabSnapshots,
                 nextTabId, now>>

\* A commit that decrements the depth whatever it is.
commitBatchBlind ==
  /\ batchDepth' = batchDepth - 1
  /\ IF batchDepth - 1 > 0
     THEN UNCHANGED <<batchLabel, batchSnapshot, undoStack, redoStack>>
     ELSE /\ batchLabel' = NullLabel
          /\ batchSnapshot' = NoSnapshot
          /\ IF batchSnapshot # NoSnapshot
             THEN /\ undoStack' = trimStack(Append(undoStack,
                        Entry(batchSnapshot,
                              IF batchLabel # NullLabel THEN batchLabel ELSE "Batch Edit",
                              now, NoKey)))
                  /\ redoStack' = <<>>
             ELSE UNCHANGED <<undoStack, redoStack>>
  /\ threw' = FALSE
  /\ UNCHANGED <<headers, rows, delimiter, newline, filePath, dirty, meta, filters, tabs,
                 activeTabId, tabSnapshots, nextTabId, now>>

commitBatch ==
  /\ IF batchDepth - 1 > 0
     THEN /\ batchDepth' = batchDepth - 1
          /\ UNCHANGED <<batchLabel, batchSnapshot, undoStack, redoStack>>
     ELSE /\ batchDepth' = 0
          /\ batchLabel' = NullLabel
          /\ batchSnapshot' = NoSnapshot
          /\ IF batchSnapshot # NoSnapshot
             THEN /\ undoStack' = trimStack(Append(undoStack,
                        Entry(batchSnapshot,
                              IF batchLabel # NullLabel THEN batchLabel ELSE "Batch Edit",
                              now, NoKey)))
                  /\ redoStack' = <<>>
             ELSE UNCHANGED <<undoStack, redoStack>>
  /\ threw' = FALSE
  /\ UNCHANGED <<headers, rows, delimiter, newline, filePath, dirty, meta, filters, tabs,
                 activeTabId, tabSnapshots, nextTabId, now>>

----------------------------------------------------------------------------
(* Time *)

\* The wall clock advances between two calls.
Tick(ms) ==
  /\ now' = now + ms
  /\ UNCHANGED <<storeVars, threw>>

----------------------------------------------------------------------------
(* The state after construction, and the inputs the specifications draw     *)
(* from                                                                     *)

StoreInit ==
  /\ headers = <<>> /\ rows = <<>> /\ delimiter = "," /\ newline = "LF"
  /\ filePath = NullPath
  /\ dirty = FALSE
  /\ meta = [rowCount |-> 0, columnCount |-> 0]
  /\ filters = NoFilters
  /\ undoStack = <<>> /\ redoStack = <<>>
  /\ batchDepth = 0 /\ batchLabel = NullLabel /\ batchSnapshot = NoSnapshot
  /\ tabs = <<>> /\ activeTabId = NoTab /\ tabSnapshots = [k \in {} |-> 0]
  /\ nextTabId = 1
  /\ now = 0
  /\ threw = FALSE

\* Documents as the codec service delivers them: rectangular, meta in step with the data.
MkDoc(h, r, d, n, p) ==
  [headers |-> h, rows |-> r, delimiter |-> d, newline |-> n, filePath |-> p,
   meta |-> [rowCount |-> Len(r), columnCount |-> Len(h)]]

DocA == MkDoc(<< <<"x">>, <<"y">> >>, << << <<"a">>, <<"b">> >> >>, ",", "LF", "a.csv")
DocB == MkDoc(<< <<"x">> >>, << << <<"a">> >>, << <<"A", "b">> >> >>, ";", "CRLF", "b.csv")

\* A call, as the observers see it.
Call(op, r, c) == [op |-> op, row |-> r, col |-> c]

Content == <<headers, rows>>
Blank == << <<>>, <<>> >>

----------------------------------------------------------------------------
(* Bounds of the explored scenarios *)

\* Table size.
MaxRows == 2
MaxCols == 2

\* History length per scenario: editing, edit-then-undo runs, batches, timed
\* edits, tabs.
MaxHist == 1
MaxHistSeq == 2
MaxHistBatch == 2
MaxHistTime == 2
MaxHistTabs == 1

\* Edit calls observed in one run; batch nesting; clock ticks; tabs ever opened.
MaxSeq == 2
MaxDepth == 2
MaxTicks == 3
MaxTabs == 3
MaxIsoTabs == 2

\* Calls counted on the other tab between leaving a tab and coming back.
MaxAwayOps == 2

\* Saves started in one run.
MaxSaves == 2

\* Rows and columns of the document whose rows and columns are moved.
MaxMove == 3

\* Edits counted in a run of coalescing edits; clock ticks during runs.
MaxRun == 3
MaxRunTicks == 2

----------------------------------------------------------------------------
(* Observers: the history a property refers to, one per scenario *)

IsEdit(call) ==
  call.op \in {"updateCell", "updateHeader", "addRow", "addColumn", "insertRowAt",
               "insertColumnAt", "removeRow", "removeColumn", "moveRows", "moveColumns",
               "replaceAll"}

\* Observer of an undo directly followed by a redo: the content before the undo
\* (pre) and after it (mid).
TrackUR(call) ==
  obs' = IF call.op = "undo" /\ undoStack # <<>>
         THEN [op |-> "undo", pre |-> Content, mid |-> Content']
         ELSE IF call.op = "redo" /\ obs.op = "undo"
         THEN [op |-> "undoredo", pre |-> obs.pre, mid |-> obs.mid]
         ELSE [op |-> "other", pre |-> Blank, mid |-> Blank]

SeqIdle == [st |-> "idle", base |-> Blank, n |-> 0, m |-> 0]

\* Observer of a run of n edit calls followed by undo calls, begun on a session
\* with no history and no open batch: base is the content before the first edit,
\* n the edit calls, m the undo calls made since.
TrackSeq(call) ==
  obs' = IF IsEdit(call) /\ obs.st = "edits" /\ obs.n < MaxSeq
         THEN [obs EXCEPT !.n = @ + 1]
         ELSE IF IsEdit(call) /\ obs.st # "edits" /\ undoStack = <<>> /\ batchDepth = 0
         THEN [st |-> "edits", base |-> Content, n |-> 1, m |-> 0]
         ELSE IF call.op = "undo" /\ obs.st \in {"edits", "undos"} /\ obs.m < obs.n
         THEN [obs EXCEPT !.st = "undos", !.m = @ + 1]
         ELSE SeqIdle

BatchIdle == [ph |-> "idle", applied |-> FALSE, touched |-> FALSE,
              pre |-> createEmptySnapshot, before |-> <<>>]

\* Observer of one batch: whether a mutation was applied in it (applied) and the
\* snapshot before the first one (pre), whether a mutation made at depth > 0
\* changed the undo stack (touched), the undo stack just before the commit that
\* brings the depth to 0 (before), and whether an undo directly followed it.
TrackBatch(call) ==
  obs' = IF call.op = "beginBatch"
         THEN IF batchDepth = 0 THEN [BatchIdle EXCEPT !.ph = "open"] ELSE obs
         ELSE IF obs.ph = "open" /\ IsEdit(call)
         THEN [obs EXCEPT !.applied = @ \/ storeVars' # storeVars,
                          !.pre = IF ~obs.applied /\ storeVars' # storeVars
                                  THEN LiveSnapshot ELSE @,
                          !.touched = @ \/ undoStack' # undoStack]
         ELSE IF obs.ph = "open" /\ call.op \in {"undo", "redo"}
         THEN obs
         ELSE IF obs.ph = "open" /\ call.op = "commitBatch"
         THEN IF batchDepth' = 0
              THEN [obs EXCEPT !.ph = "committed", !.before = undoStack]
              ELSE obs
         ELSE IF obs.ph = "committed" /\ obs.applied /\ call.op = "undo"
         THEN [obs EXCEPT !.ph = "undone"]
         ELSE BatchIdle

NoEdit == [edit |-> FALSE, key |-> <<0, 0>>, time |-> 0, pre |-> createEmptySnapshot,
           stack0 |-> <<>>, coalesced |-> FALSE]

NoPair == [valid |-> FALSE, dt |-> 0, pre1 |-> createEmptySnapshot,
           mid |-> createEmptySnapshot, stack0 |-> <<>>, stackMid |-> <<>>,
           firstCoalesced |-> FALSE, depth |-> 0]

\* Observer of the last two calls. prev describes the previous call when it was a
\* value-changing updateCell: its cell, its time, the snapshot and the undo stack
\* before it, and whether it left the stack's length as it was outside a batch.
\* pair is valid when the last two calls were value-changing updateCell calls on
\* one cell with no operation between them.
TrackPair(call) ==
  obs' = IF call.op = "updateCell" /\ rows' # rows
         THEN [prev |-> [edit |-> TRUE, key |-> <<call.row, call.col>>, time |-> now,
                         pre |-> LiveSnapshot, stack0 |-> undoStack,
                         coalesced |-> batchDepth = 0 /\ Len(undoStack') = Len(undoStack)],
               pair |-> IF obs.prev.edit /\ obs.prev.key = <<call.row, call.col>>
                        THEN [valid |-> TRUE, dt |-> now - obs.prev.time,
                              pre1 |-> obs.prev.pre, mid |-> LiveSnapshot,
                              stack0 |-> obs.prev.stack0, stackMid |-> undoStack,
                              firstCoalesced |-> obs.prev.coalesced, depth |-> batchDepth]
                        ELSE NoPair]
         ELSE [prev |-> NoEdit, pair |-> NoPair]

NoRun == [len |-> 0, key |-> <<>>, start |-> 0, last |-> 0, pre |-> createEmptySnapshot,
          stack0 |-> <<>>, firstCoalesced |-> FALSE, batched |-> FALSE, undone |-> FALSE]

\* Observer of a run of edits: consecutive value-changing updateCell calls on one
\* cell, or updateHeader calls on one header, each less than COALESCE_WINDOW_MS
\* after the one before, and the undo that directly follows the run; a call that
\* writes the value already there is no edit and does not end the run.  It keeps
\* the number of edits (up to MaxRun), the times of the first and the last, the snapshot and the
\* undo stack before the first, whether the first left the stack's length as it
\* was outside a batch, and whether an edit of the run was made inside a batch.
TrackRun(call) ==
  LET key == <<call.op, call.row, call.col>>
      changing == call.op \in {"updateCell", "updateHeader"} /\ LiveSnapshot' # LiveSnapshot
      continues ==
        /\ obs.len > 0 /\ ~obs.undone /\ obs.key = key
        /\ now - obs.last < COALESCE_WINDOW_MS
  IN obs' = IF changing /\ continues
            THEN [obs EXCEPT !.len = Min(@ + 1, MaxRun), !.last = now,
                             !.batched = @ \/ batchDepth > 0]
            ELSE IF changing
            THEN [len |-> 1, key |-> key, start |-> now, last |-> now, pre |-> LiveSnapshot,
                  stack0 |-> undoStack,
                  firstCoalesced |-> batchDepth = 0 /\ Len(undoStack') = Len(undoStack),
                  batched |-> batchDepth > 0, undone |-> FALSE]
            ELSE IF call.op \in {"updateCell", "updateHeader"} /\ ~obs.undone
            THEN obs
            ELSE IF call.op = "undo" /\ obs.len > 0 /\ ~obs.undone
            THEN [obs EXCEPT !.undone = TRUE]
            ELSE NoRun

NoNest == [open |-> FALSE, label |-> NullLabel, deepest |-> 0, mutated |-> FALSE,
           pre |-> createEmptySnapshot, commit |-> "none", before |-> <<>>]

\* Observer of a batch from its outermost beginBatch to its last commitBatch: the
\* label of the outermost beginBatch, the deepest nesting reached, the snapshot
\* before the first mutation made inside, and for the last call, when it is a
\* commitBatch, whether it was an inner or the outermost one and the undo stack
\* before it.
TrackNest(call) ==
  LET tracked == IF obs.open THEN obs ELSE NoNest
  IN obs' = IF call.op = "beginBatch"
            THEN IF batchDepth = 0
                 THEN [NoNest EXCEPT !.open = TRUE, !.label = call.row, !.deepest = 1]
                 ELSE [tracked EXCEPT !.deepest = Max(@, batchDepth'), !.commit = "none"]
            ELSE IF call.op = "commitBatch"
            THEN IF batchDepth > 1
                 THEN [tracked EXCEPT !.commit = "inner", !.before = undoStack]
                 ELSE [tracked EXCEPT !.open = FALSE, !.commit = "outer", !.before = undoStack]
            ELSE IF call.op \in {"openTab"}
            THEN NoNest
            ELSE IF IsEdit(call) /\ LiveSnapshot' # LiveSnapshot /\ ~tracked.mutated
            THEN [tracked EXCEPT !.mutated = TRUE, !.pre = LiveSnapshot, !.commit = "none"]
            ELSE [tracked EXCEPT !.commit = "none"]

ReplaceIdle == [ph |-> "idle", pre |-> createEmptySnapshot, stack0 |-> <<>>, depth |-> 0,
                matches |-> 0]

\* Observer of a replaceAll with matches and of the undo that directly follows
\* it: the snapshot, the undo stack and the batch depth before the replaceAll,
\* and the number of matches.
TrackReplace(call) ==
  obs' = IF call.op = "replaceAll" /\ Len(call.row) > 0
         THEN [ph |-> "replaced", pre |-> LiveSnapshot, stack0 |-> undoStack,
               depth |-> batchDepth, matches |-> Len(call.row)]
         ELSE IF call.op = "undo" /\ obs.ph = "replaced"
         THEN [obs EXCEPT !.ph = "undone"]
         ELSE ReplaceIdle

CapIdle == [full |-> FALSE, before |-> <<>>, pre |-> createEmptySnapshot]

\* Observer of a push onto a full undo stack: the stack and the snapshot before it.
TrackCap(call) ==
  obs' = IF IsEdit(call) /\ Len(undoStack) = MAX_UNDO_HISTORY
         THEN [full |-> TRUE, before |-> undoStack, pre |-> LiveSnapshot]
         ELSE CapIdle

\* The session on screen: everything a tab owns.
LiveSession ==
  [headers |-> headers, rows |-> rows, delimiter |-> delimiter, newline |-> newline,
   filePath |-> filePath, dirty |-> dirty, meta |-> meta, filters |-> filters,
   undoStack |-> undoStack, redoStack |-> redoStack, batchDepth |-> batchDepth,
   batchLabel |-> batchLabel, batchSnapshot |-> batchSnapshot]

NoSession == [none |-> TRUE]

\* Observer of the tabs: left maps every tab in the background to the session it
\* had on screen when it was last left; shown holds, after a step that brought
\* another tab to the screen, the session that tab was left with.
TrackTabs(call) ==
  LET leaving == activeTabId # NoTab /\ activeTabId' # activeTabId
      kept == IF leaving THEN PutKey(obs.left, activeTabId, LiveSession) ELSE obs.left
      open == IF call.op = "closeTab" THEN DeleteKey(kept, call.row) ELSE kept
  IN obs' = [left |-> DeleteKey(open, activeTabId'),
             shown |-> IF call.op \in {"switchTab", "closeTab"}
                          /\ activeTabId' # activeTabId /\ activeTabId' # NoTab
                       THEN [on |-> TRUE,
                             expect |-> IF activeTabId' \in DOMAIN obs.left
                                        THEN obs.left[activeTabId'] ELSE NoSession]
                       ELSE [on |-> FALSE, expect |-> NoSession]]

NotAway == [away |-> FALSE, back |-> FALSE, tab |-> NoTab, session |-> NoSession, ops |-> 0]

\* Observer of a switch away from a tab and back: the tab that was left and the
\* session it had on screen, the number of calls made on the other tab since
\* (counted up to MaxAwayOps), and whether the last call switched back to it.
TrackBack(call) ==
  obs' = IF call.op = "switchTab" /\ activeTabId' # activeTabId
         THEN IF obs.away /\ activeTabId' = obs.tab
              THEN [obs EXCEPT !.away = FALSE, !.back = TRUE]
              ELSE [away |-> TRUE, back |-> FALSE, tab |-> activeTabId,
                    session |-> LiveSession, ops |-> 0]
         ELSE IF obs.away /\ call.op \notin {"switchTab", "openTab", "closeTab"}
         THEN [obs EXCEPT !.ops = Min(@ + 1, MaxAwayOps)]
         ELSE IF obs.away /\ call.op = "switchTab"
         THEN obs
         ELSE NotAway

NoSave == [pc |-> "idle", saves |-> 0, completed |-> FALSE, snapshot |-> createEmptySnapshot,
           targetPath |-> NullPath, tab |-> NoTab, pre |-> NoSession,
           disk |-> <<>>, path |-> <<>>]

\* Observer of the saves, for a call of the store made while no save or one save
\* is in flight: disk maps a tab to the content last loaded into it or written
\* from it, path maps a tab to the path of its most recent load or markSaved.
TrackSave(call) ==
  obs' = [obs EXCEPT !.completed = FALSE,
                     !.pre = NoSession,
                     !.disk = IF call.op = "openTab"
                              THEN PutKey(@, activeTabId', Content') ELSE @,
                     !.path = IF call.op = "openTab"
                              THEN PutKey(@, activeTabId', filePath') ELSE @]

\* Everything the store holds: the session on screen and the tab bookkeeping.
StoreState ==
  [session |-> LiveSession, tabs |-> tabs, activeTabId |-> activeTabId,
   tabSnapshots |-> tabSnapshots]

NoCall == [call |-> [op |-> "none"], pre |-> [none |-> TRUE]]

LastCallScopes == {"close", "load", "frame", "move", "depth", "keep"}

\* The operations each of these scenarios observes.
Watched ==
  CASE scope = "close" -> {"closeTab", "switchTab"}
    [] scope = "load" -> {"openTab", "setData"}
    [] scope = "move" -> {"moveRows", "moveColumns"}
    [] scope = "frame" -> {"replaceAll", "updateCell", "updateHeader", "undo", "redo"}
    [] scope = "keep" -> {"setFilter", "insertColumnAt", "removeColumn", "moveColumns",
                          "undo", "redo"}
    [] OTHER -> {"commitBatch"}

\* Observer of the last call, when it is one the scenario observes: the call with
\* its arguments and the store before it.
TrackLast(call) ==
  obs' = IF call.op \in Watched THEN [call |-> call, pre |-> StoreState] ELSE NoCall

\* The observer of the scenario sees the call; the scenario never changes.
Observe(call) ==
  /\ scope' = scope
  /\ CASE scope = "edit" -> TrackUR(call)
       [] scope = "seq" -> TrackSeq(call)
       [] scope = "batch" -> TrackBatch(call)
       [] scope = "time" -> TrackPair(call)
       [] scope = "run" -> TrackRun(call)
       [] scope = "nest" -> TrackNest(call)
       [] scope = "replace" -> TrackReplace(call)
       [] scope = "cap" -> TrackCap(call)
       [] scope = "iso" -> TrackTabs(call)
       [] scope = "back" -> TrackBack(call)
       [] scope = "save" -> TrackSave(call)
       [] scope \in LastCallScopes -> TrackLast(call)
       [] OTHER -> UNCHANGED obs

HistBound ==
  CASE scope = "edit" -> MaxHist
    [] scope \in {"seq", "move", "nest", "replace"} -> MaxHistSeq
    [] scope = "batch" -> MaxHistBatch
    [] scope \in {"time", "run"} -> MaxHistTime
    [] OTHER -> MaxHistTabs

TabBound == IF scope \in {"iso", "back", "save", "load", "depth"} THEN MaxIsoTabs ELSE MaxTabs

\* The explored region: table size and history length after the step.
Within ==
  /\ Len(rows') <= MaxRows
  /\ Len(headers') <= MaxCols
  /\ \A i \in 1..Len(rows') : Len(rows'[i]) <= MaxCols
  /\ Len(undoStack') <= HistBound
  /\ Len(redoStack') <= HistBound

----------------------------------------------------------------------------
(* The editing scenario: every mutation with in-range and out-of-range      *)
(* indices, undo and redo, on the store as constructed and on a loaded      *)
(* document                                                                 *)

RowArgs == -1..MaxRows
ColArgs == -1..MaxCols
ValueArgs == {<<>>, <<"a">>}

EdOpenTab ==
  \E d \in {DocA} : nextTabId <= 1 /\ openTab(d) /\ Observe(Call("openTab", 0, 0))

EdUpdateCell ==
  \E r \in RowArgs, c \in ColArgs, v \in ValueArgs :
    updateCell(r, c, v) /\ Within /\ Observe(Call("updateCell", r, c))

EdUpdateHeader ==
  \E c \in ColArgs, v \in ValueArgs :
    updateHeader(c, v) /\ Within /\ Observe(Call("updateHeader", 0, c))

EdAddRow == addRow /\ Within /\ Observe(Call("addRow", 0, 0))

EdAddColumn == addColumn /\ Within /\ Observe(Call("addColumn", 0, 0))

EdInsertRowAt ==
  \E r \in RowArgs : insertRowAt(r) /\ Within /\ Observe(Call("insertRowAt", r, 0))

EdInsertColumnAt ==
  \E c \in ColArgs : insertColumnAt(c) /\ Within /\ Observe(Call("insertColumnAt", 0, c))

EdRemoveRow ==
  \E r \in RowArgs : removeRow(r) /\ Within /\ Observe(Call("removeRow", r, 0))

EdRemoveColumn ==
  \E c \in ColArgs : removeColumn(c) /\ Within /\ Observe(Call("removeColumn", 0, c))

EdMoveRows ==
  \E a \in RowArgs, t \in RowArgs : \E b \in {a, a + 1} :
    moveRows(a, b, t) /\ Within /\ Observe(Call("moveRows", a, 0))

EdMoveColumns ==
  \E a \in ColArgs, t \in ColArgs : \E b \in {a, a + 1} :
    moveColumns(a, b, t) /\ Within /\ Observe(Call("moveColumns", 0, a))

MatchArgs == {<< [row |-> 0, col |-> 0] >>,
              << [row |-> -1, col |-> 0], [row |-> 1, col |-> 1] >>}

EdReplaceAll ==
  \E m \in MatchArgs :
    replaceAll(<<"A">>, <<"b">>, m) /\ Within /\ Observe(Call("replaceAll", 0, 0))

EdUndo == undo /\ Within /\ Observe(Call("undo", 0, 0))

EdRedo == redo /\ Within /\ Observe(Call("redo", 0, 0))

Init == StoreInit /\ scope = "edit" /\ obs = [op |-> "other", pre |-> Blank, mid |-> Blank]

Next ==
  \/ EdOpenTab
  \/ EdUpdateCell
  \/ EdUpdateHeader
  \/ EdAddRow
  \/ EdAddColumn
  \/ EdInsertRowAt
  \/ EdInsertColumnAt
  \/ EdRemoveRow
  \/ EdRemoveColumn
  \/ EdMoveRows
  \/ EdMoveColumns
  \/ EdReplaceAll
  \/ EdUndo
  \/ EdRedo

Spec == Init /\ [][Next]_vars

\* C2: an undo (on a non-empty undo stack) directly followed by a redo leaves
\* headers and rows exactly as they were before the undo.
C2_UndoThenRedoRestores == obs.op = "undoredo" => Content = obs.pre

\* An undo that changed the table has been redone.
C2_Witness == obs.op = "undoredo" /\ obs.mid # obs.pre /\ ~threw

\* Every element of rows is a row, as long as the header list.
Rectangular(h, rs) ==
  \A i \in 1..Len(rs) : rs[i] # Hole /\ rs[i] # UndefRow /\ Len(rs[i]) = Len(h)

\* C7: starting from a rectangular snapshot (a loaded document), after any
\* sequence of mutations, undos and redos with any arguments every row's length
\* equals the header count.
C7_RowsMatchHeaders == activeTabId # NoTab => Rectangular(headers, rows)

OutOfRange(i, n) == i < 0 \/ i >= n
Clamp(i, n) == Max(0, Min(i, n - 1))
ContentOf(d) == <<d.headers, d.rows>>

\* The step left the content alone, or did what the call with its indices clamped
\* into the table does (`clamped` is that call's draft), and the table is whole.
NoopOrClamped(clamped) ==
  /\ ~threw'
  /\ Rectangular(headers', rows')
  /\ \/ Content' = Content
     \/ Len(rows) > 0 /\ Len(headers) > 0 /\ Content' = ContentOf(clamped)

\* C8: on an open, rectangular table, updateCell, updateHeader, removeRow and
\* removeColumn called with an out-of-range index leave the content unchanged or
\* act on the clamped index; they do not throw and leave no hole and no row of
\* the wrong length.
C8_OutOfRangeIsNoopOrClamped ==
  [][(activeTabId # NoTab /\ Rectangular(headers, rows)) =>
       /\ \A r \in RowArgs, c \in ColArgs, v \in ValueArgs :
            (OutOfRange(r, Len(rows)) \/ OutOfRange(c, Len(headers))) /\ updateCell(r, c, v)
              => NoopOrClamped(MutUpdateCell(LiveSnapshot, Clamp(r, Len(rows)),
                                             Clamp(c, Len(headers)), v))
       /\ \A c \in ColArgs, v \in ValueArgs :
            OutOfRange(c, Len(headers)) /\ updateHeader(c, v)
              => NoopOrClamped(MutUpdateHeader(LiveSnapshot, Clamp(c, Len(headers)), v))
       /\ \A r \in RowArgs :
            OutOfRange(r, Len(rows)) /\ removeRow(r)
              => NoopOrClamped(MutRemoveRow(LiveSnapshot, Clamp(r, Len(rows))))
       /\ \A c \in ColArgs :
            OutOfRange(c, Len(headers)) /\ removeColumn(c)
              => NoopOrClamped(MutRemoveColumn(LiveSnapshot, Clamp(c, Len(headers))))
    ]_vars

TrueNoop ==
  /\ Content' = Content
  /\ undoStack' = undoStack
  /\ redoStack' = redoStack
  /\ dirty' = dirty

\* C32: on an open, rectangular table, a removeRow or removeColumn with an index
\* at or past the count, or a moveRows whose source range starts past the last
\* row, that leaves the content unchanged also pushes no undo entry, keeps the
\* redo stack and does not set the dirty flag.
C32_OutOfRangeNoopIsTrueNoop ==
  [][(activeTabId # NoTab /\ Rectangular(headers, rows) /\ batchDepth = 0) =>
       /\ \A r \in RowArgs :
            r >= Len(rows) /\ removeRow(r) /\ Content' = Content => TrueNoop
       /\ \A c \in ColArgs :
            c >= Len(headers) /\ removeColumn(c) /\ Content' = Content => TrueNoop
       /\ \A a \in RowArgs, t \in RowArgs : \A b \in {a, a + 1} :
            a >= Len(rows) /\ moveRows(a, b, t) /\ Content' = Content => TrueNoop
    ]_vars

----------------------------------------------------------------------------
(* The same operations, observed as a run of edits followed by undos *)

InitSeq == StoreInit /\ scope = "seq" /\ obs = SeqIdle

NextSeq ==
  \/ EdOpenTab
  \/ EdUpdateCell
  \/ EdUpdateHeader
  \/ EdAddRow
  \/ EdAddColumn
  \/ EdInsertRowAt
  \/ EdInsertColumnAt
  \/ EdRemoveRow
  \/ EdRemoveColumn
  \/ EdMoveRows
  \/ EdMoveColumns
  \/ EdReplaceAll
  \/ EdUndo
  \/ EdRedo

SpecSeq == InitSeq /\ [][NextSeq]_vars

\* C1: n edit calls made outside a batch on a session whose history starts
\* empty, followed by n undo calls, leave headers and rows as they were before
\* the first edit.
C1_UndosInvertEdits == (obs.st = "undos" /\ obs.m = obs.n) => Content = obs.base

----------------------------------------------------------------------------
(* Batches: edits and undo inside and outside beginBatch / commitBatch     *)

BatchLabels == {"Paste"}
BatchRows == 0..1

\* A document with one column and no rows yet.
DocE == MkDoc(<< <<"x">> >>, <<>>, ",", "LF", "e.csv")

BtOpenTab ==
  nextTabId <= 1 /\ openTab(DocE) /\ Observe(Call("openTab", 0, 0))

BtUpdateCell ==
  \E r \in BatchRows, v \in ValueArgs :
    updateCell(r, 0, v) /\ Within /\ Observe(Call("updateCell", r, 0))

BtMoveRows ==
  \E t \in 0..MaxRows :
    moveRows(0, 0, t) /\ Within /\ Observe(Call("moveRows", 0, 0))

BtUndo == undo /\ Within /\ Observe(Call("undo", 0, 0))

BtBeginBatch ==
  \E l \in BatchLabels :
    batchDepth < MaxDepth /\ beginBatch(l) /\ Observe(Call("beginBatch", 0, 0))

BtCommitBatch ==
  commitBatch /\ Within /\ Observe(Call("commitBatch", 0, 0))

InitBatch == StoreInit /\ scope = "batch" /\ obs = BatchIdle

NextBatch ==
  \/ BtOpenTab
  \/ BtUpdateCell
  \/ BtMoveRows
  \/ BtUndo
  \/ BtBeginBatch
  \/ BtCommitBatch

SpecBatch == InitBatch /\ [][NextBatch]_vars

\* C3: a mutation applied at batch depth > 0 leaves the undo stack as it was; the
\* commit that brings the depth to 0 appends exactly one entry when a mutation was
\* applied in the batch; an undo directly after that commit restores the snapshot
\* from before the batch's first mutation.
C3_BatchIsOneUndoStep ==
  /\ ~obs.touched
  /\ (obs.ph = "committed" /\ obs.applied) =>
        /\ Len(undoStack) = Len(obs.before) + 1
        /\ SubSeq(undoStack, 1, Len(obs.before)) = obs.before
  /\ obs.ph = "undone" => LiveSnapshot = obs.pre

----------------------------------------------------------------------------
(* Timed cell edits: in-range updateCell calls, undo, redo and batches,     *)
(* with the clock advancing between calls                                   *)

TickMs == COALESCE_WINDOW_MS \div 2

\* A document of one cell.
DocT == MkDoc(<< <<"x">> >>, << << <<"a">> >> >>, ",", "LF", "t.csv")

TmOpenTab ==
  nextTabId <= 1 /\ openTab(DocT) /\ Observe(Call("openTab", 0, 0))

TmUpdateCell ==
  \E r \in 0..(Len(rows) - 1), c \in 0..(Len(headers) - 1), v \in ValueArgs :
    updateCell(r, c, v) /\ Within /\ Observe(Call("updateCell", r, c))

TmUndo == undo /\ Within /\ Observe(Call("undo", 0, 0))

TmRedo == redo /\ Within /\ Observe(Call("redo", 0, 0))

TmBeginBatch ==
  batchDepth < 1 /\ beginBatch("Paste") /\ Observe(Call("beginBatch", 0, 0))

TmCommitBatch ==
  commitBatch /\ Within /\ Observe(Call("commitBatch", 0, 0))

\* Time passes between two calls; it is not an operation of the store.
TmTick == now < MaxTicks * TickMs /\ Tick(TickMs) /\ UNCHANGED <<obs, scope>>

InitTime == StoreInit /\ scope = "time" /\ obs = [prev |-> NoEdit, pair |-> NoPair]

NextTime ==
  \/ TmOpenTab
  \/ TmUpdateCell
  \/ TmUndo
  \/ TmRedo
  \/ TmBeginBatch
  \/ TmCommitBatch
  \/ TmTick

SpecTime == InitTime /\ [][NextTime]_vars

\* The undo stack is `base` with one entry on top, holding `snapshot`.
PushedOn(base, stack, snapshot) ==
  /\ Len(stack) = Len(base) + 1
  /\ SubSeq(stack, 1, Len(base)) = base
  /\ stack[Len(stack)].snapshot = snapshot

\* C4 as stated: two consecutive value-changing updateCell calls on one cell less
\* than 2000 ms apart leave exactly one new undo entry, holding the state before
\* the first of them.
C4_RapidPairOneEntry ==
  (obs.pair.valid /\ obs.pair.dt < COALESCE_WINDOW_MS) =>
      PushedOn(obs.pair.stack0, undoStack, obs.pair.pre1)

\* C4, amended: the same, for calls made outside a batch whose first call was not
\* itself merged into an earlier entry.
C4_RapidPairOneEntryOutsideBatch ==
  (obs.pair.valid /\ obs.pair.dt < COALESCE_WINDOW_MS /\ obs.pair.depth = 0
     /\ ~obs.pair.firstCoalesced) =>
      PushedOn(obs.pair.stack0, undoStack, obs.pair.pre1)

C4_Witness ==
  /\ obs.pair.valid /\ obs.pair.dt = TickMs /\ obs.pair.depth = 0
  /\ ~obs.pair.firstCoalesced /\ obs.pair.stack0 # <<>>
  /\ PushedOn(obs.pair.stack0, undoStack, obs.pair.pre1)

\* C5 as stated: two consecutive value-changing updateCell calls on one cell more
\* than 2000 ms apart produce two separate undo entries, the second holding the
\* state between the two edits.
C5_SlowPairTwoEntries ==
  (obs.pair.valid /\ obs.pair.dt > COALESCE_WINDOW_MS) =>
      /\ PushedOn(obs.pair.stack0, obs.pair.stackMid, obs.pair.pre1)
      /\ PushedOn(obs.pair.stackMid, undoStack, obs.pair.mid)

\* C5, amended: outside a batch the second call pushes an entry of its own, holding
\* the state between the two edits, on top of the stack the first call left; the
\* first call's entry is new as well unless that call was merged into an earlier
\* entry.
C5_SlowPairTwoEntriesOutsideBatch ==
  (obs.pair.valid /\ obs.pair.dt > COALESCE_WINDOW_MS /\ obs.pair.depth = 0) =>
      /\ PushedOn(obs.pair.stackMid, undoStack, obs.pair.mid)
      /\ ~obs.pair.firstCoalesced =>
            PushedOn(obs.pair.stack0, obs.pair.stackMid, obs.pair.pre1)

C5_Witness ==
  /\ obs.pair.valid /\ obs.pair.dt > COALESCE_WINDOW_MS /\ obs.pair.depth = 0
  /\ ~obs.pair.firstCoalesced
  /\ Len(undoStack) = 2
  /\ undoStack[2].snapshot = obs.pair.mid
  /\ undoStack[1].snapshot = obs.pair.pre1

----------------------------------------------------------------------------
(* Runs of timed edits to one cell or one header, in and out of batches,    *)
(* followed by undo                                                         *)

\* A document of one header and no row: its header is edited, while the cell is
\* edited in the document of one cell.
DocH == MkDoc(<< <<"x">> >>, <<>>, ",", "LF", "h.csv")

RnOpenTab ==
  \E d \in {DocT, DocH} : nextTabId <= 1 /\ openTab(d) /\ Observe(Call("openTab", 0, 0))

RnUpdateHeader ==
  \E v \in ValueArgs :
    /\ Len(headers) > 0 /\ Len(rows) = 0
    /\ updateHeader(0, v) /\ Within /\ Observe(Call("updateHeader", 0, 0))

\* Three quarters of the window pass between two calls.
RunTickMs == (3 * COALESCE_WINDOW_MS) \div 4

RnTick == now < MaxRunTicks * RunTickMs /\ Tick(RunTickMs) /\ UNCHANGED <<obs, scope>>

InitRun == StoreInit /\ scope = "run" /\ obs = NoRun

NextRun ==
  \/ RnOpenTab
  \/ TmUpdateCell
  \/ RnUpdateHeader
  \/ TmUndo
  \/ TmBeginBatch
  \/ TmCommitBatch
  \/ RnTick

SpecRun == InitRun /\ [][NextRun]_vars

\* The run on record has one undo entry, holding the state before its first
\* edit; after the undo that follows it, that state is on screen.
RunIsOneStep ==
  /\ ~obs.undone => PushedOn(obs.stack0, undoStack, obs.pre)
  /\ obs.undone => LiveSnapshot = obs.pre /\ undoStack = obs.stack0

\* C26 as stated: the edits of a run share a single undo entry, however long the
\* run lasts, and one undo restores the state before the first edit of the run.
C26_RunSharesOneEntry ==
  obs.len > 0 => RunIsOneStep

\* C26, amended: the same, for a run made outside a batch whose first edit was
\* not itself merged into an earlier entry.
C26_RunSharesOneEntryOutsideBatch ==
  obs.len > 0 /\ ~obs.batched /\ ~obs.firstCoalesced => RunIsOneStep

\* A run of MaxRun edits that lasts longer than the window, then undone: the
\* stack is as before the run.
C26_Witness ==
  /\ obs.len = MaxRun /\ obs.undone
  /\ obs.last - obs.start > COALESCE_WINDOW_MS
  /\ ~obs.batched /\ ~obs.firstCoalesced
  /\ LiveSnapshot = obs.pre
  /\ undoStack = obs.stack0

----------------------------------------------------------------------------
(* Nested batches: labelled beginBatch calls up to MaxDepth deep, edits and *)
(* undo at every level, and the commits                                     *)

NestLabels == {"Paste", "Fill"}

NsBeginBatch ==
  \E label \in NestLabels :
    batchDepth < MaxDepth /\ beginBatch(label) /\ Observe(Call("beginBatch", label, 0))

NsCommitBatch ==
  batchDepth > 0 /\ commitBatch /\ Within /\ Observe(Call("commitBatch", 0, 0))

InitNest == StoreInit /\ scope = "nest" /\ obs = NoNest

NextNest ==
  \/ TmOpenTab
  \/ TmUpdateCell
  \/ TmUndo
  \/ NsBeginBatch
  \/ NsCommitBatch

SpecNest == InitNest /\ [][NextNest]_vars

\* C27: in a batch nested at least two deep in which a mutation is made, a
\* commitBatch that is not the last pushes no undo entry, and the last one pushes
\* exactly one, holding the state before the first mutation made at any level
\* and labelled as the outermost beginBatch was.
C27_NestedBatchOneEntry ==
  /\ obs.commit = "inner" => undoStack = obs.before
  /\ obs.commit = "outer" /\ obs.deepest >= 2 /\ obs.mutated =>
       /\ PushedOn(obs.before, undoStack, obs.pre)
       /\ undoStack[Len(undoStack)].label = obs.label

\* A batch two deep, labelled Fill by its outermost beginBatch, was committed on
\* an undo stack that was not empty, after a mutation.
C27_Witness ==
  /\ obs.commit = "outer" /\ obs.deepest >= 2 /\ obs.mutated
  /\ obs.label = "Fill"
  /\ obs.before # <<>>
  /\ undoStack[Len(undoStack)].label = "Fill"
  /\ undoStack[Len(undoStack)].snapshot = obs.pre
  /\ LiveSnapshot # obs.pre

\* C33: a mutation that changes the content, made inside an open batch or
\* outside one, leaves the redo stack empty, so that no redo can follow an edit.
C33_MutationEmptiesRedo ==
  [][\A r \in 0..(MaxRows - 1), c \in 0..(MaxCols - 1), v \in ValueArgs :
       updateCell(r, c, v) /\ Content' # Content => redoStack' = <<>>
    ]_vars

----------------------------------------------------------------------------
(* Replace All over headers and cells, in and out of a batch, and undo      *)

\* Two headers and four cells; the term `a` occurs in a header and in cells, in
\* both cases, and there are a null and a numeric cell.
DocR ==
  MkDoc(<< <<"A", "b">>, <<"x">> >>,
        << << <<"a">>, Null >>, << <<"b", "a">>, Num(5) >> >>, ",", "LF", "r.csv")

ReplaceMatches ==
  {<<>>,
   << [row |-> 1, col |-> 0] >>,
   << [row |-> -1, col |-> 0], [row |-> 0, col |-> 0] >>,
   << [row |-> -1, col |-> 0], [row |-> 0, col |-> 0], [row |-> 1, col |-> 0] >>}

RpOpenTab == nextTabId <= 1 /\ openTab(DocR) /\ Observe(Call("openTab", 0, 0))

RpReplaceAll ==
  \E m \in ReplaceMatches :
    replaceAll(<<"a">>, <<"c">>, m) /\ Within /\ Observe(Call("replaceAll", m, 0))

InitReplace == StoreInit /\ scope = "replace" /\ obs = ReplaceIdle

NextReplace ==
  \/ RpOpenTab
  \/ RpReplaceAll
  \/ TmUndo
  \/ TmBeginBatch
  \/ TmCommitBatch

SpecReplace == InitReplace /\ [][NextReplace]_vars

\* C29: a replaceAll with matches, called outside a batch, pushes exactly one
\* undo entry, labelled "Replace All", however many cells and headers it
\* matched, and the undo that follows restores every header and cell.
C29_ReplaceAllIsOneStep ==
  /\ obs.ph = "replaced" /\ obs.depth = 0 =>
       /\ PushedOn(obs.stack0, undoStack, obs.pre)
       /\ undoStack[Len(undoStack)].label = "Replace All"
  /\ obs.ph = "undone" /\ obs.depth = 0 =>
       /\ LiveSnapshot = obs.pre
       /\ undoStack = obs.stack0

\* A header and two cells were replaced on top of an earlier entry, then undone.
C29_Witness ==
  /\ obs.ph = "undone" /\ obs.depth = 0 /\ obs.matches = 3
  /\ obs.stack0 # <<>>
  /\ LiveSnapshot = obs.pre
  /\ Len(headers) = 2 /\ Len(rows) = 2
  /\ redoStack # <<>>
  /\ LET after == redoStack[Len(redoStack)].snapshot
     IN /\ after.headers[1] # headers[1]
        /\ after.rows[1][1] # rows[1][1]
        /\ after.rows[2][1] # rows[2][1]

----------------------------------------------------------------------------
(* Long histories: a row added and removed again and again, with undo and   *)
(* redo, until the stacks reach their cap                                   *)

CpAddRow == Len(rows) = 0 /\ addRow /\ Observe(Call("addRow", 0, 0))

CpRemoveRow == Len(rows) = 1 /\ removeRow(0) /\ Observe(Call("removeRow", 0, 0))

CpUndo == undo /\ Observe(Call("undo", 0, 0))

CpRedo == redo /\ Observe(Call("redo", 0, 0))

InitCap == StoreInit /\ scope = "cap" /\ obs = CapIdle

NextCap ==
  \/ CpAddRow
  \/ CpRemoveRow
  \/ CpUndo
  \/ CpRedo

SpecCap == InitCap /\ [][NextCap]_vars

\* C6: the undo stack and the redo stack never hold more than 50 entries, and a
\* push onto an undo stack of 50 entries drops the oldest, keeps the other 49 in
\* order and puts the new entry on top.
C6_StacksCapped ==
  /\ Len(undoStack) <= MAX_UNDO_HISTORY
  /\ Len(redoStack) <= MAX_UNDO_HISTORY
  /\ obs.full =>
       /\ Len(undoStack) = MAX_UNDO_HISTORY
       /\ SubSeq(undoStack, 1, MAX_UNDO_HISTORY - 1) = SubSeq(obs.before, 2, MAX_UNDO_HISTORY)
       /\ undoStack[MAX_UNDO_HISTORY].snapshot = obs.pre

C6_Witness ==
  /\ obs.full
  /\ Len(obs.before) = MAX_UNDO_HISTORY
  /\ Len(undoStack) = MAX_UNDO_HISTORY
  /\ undoStack[MAX_UNDO_HISTORY].snapshot = obs.pre
  /\ undoStack[1] = obs.before[2]

----------------------------------------------------------------------------
(* Tabs: opening, creating, switching and closing tabs, loading and         *)
(* clearing, and the session operations on the active tab                   *)

TbOpenTab ==
  nextTabId <= TabBound /\ openTab(DocA) /\ Observe(Call("openTab", 0, 0))

TbNewTab ==
  nextTabId <= TabBound /\ newTab /\ Observe(Call("newTab", 0, 0))

TbSwitchTab ==
  \E id \in 1..(TabBound + 1) : switchTab(id) /\ Observe(Call("switchTab", id, 0))

TbCloseTab ==
  \E id \in 1..(TabBound + 1) : closeTab(id) /\ Observe(Call("closeTab", id, 0))

TbSetData == setData(DocB) /\ Observe(Call("setData", 0, 0))

TbClear == clear /\ Observe(Call("clear", 0, 0))

TbUpdateCell ==
  \E v \in ValueArgs :
    /\ Len(rows) > 0 /\ Len(headers) > 0
    /\ updateCell(0, 0, v) /\ Within /\ Observe(Call("updateCell", 0, 0))

\* The grid opens and commits a batch within one event handler, so the undo and
\* redo commands arrive between batches.
TbUndo ==
  batchDepth = 0 /\ undo /\ Within /\ Observe(Call("undo", 0, 0))

TbRedo ==
  batchDepth = 0 /\ redo /\ Within /\ Observe(Call("redo", 0, 0))

TbSetFilter == setFilter(0, <<"a">>) /\ Observe(Call("setFilter", 0, 0))

TbBeginBatch ==
  batchDepth < 1 /\ beginBatch("Paste") /\ Observe(Call("beginBatch", 0, 0))

TbCommitBatch ==
  commitBatch /\ Within /\ Observe(Call("commitBatch", 0, 0))

\* Saving the document under the path it was opened from.
TbMarkSaved == markSaved(DocA.filePath) /\ Observe(Call("markSaved", 0, 0))

InitTabs == StoreInit /\ scope = "tabs" /\ obs = 0

NextTabs ==
  \/ TbOpenTab
  \/ TbNewTab
  \/ TbSwitchTab
  \/ TbCloseTab
  \/ TbSetData
  \/ TbClear
  \/ TbUpdateCell
  \/ TbUndo

SpecTabs == InitTabs /\ [][NextTabs]_vars

\* C10: with no tabs no tab is active; with tabs, the active id is the id of
\* exactly one of them.
C10_OneActiveTab ==
  /\ tabs = <<>> => activeTabId = NoTab
  /\ tabs # <<>> => Cardinality({i \in 1..Len(tabs) : tabs[i].id = activeTabId}) = 1

C10_Witness ==
  /\ Len(tabs) = 2
  /\ nextTabId > 3
  /\ activeTabId = tabs[1].id
  /\ dirty
  /\ Cardinality({i \in 1..Len(tabs) : tabs[i].id = activeTabId}) = 1

\* C39: the stored sessions are those of the tabs in the tab list other than
\* the active one: one for each, none for the active tab, none for a closed tab
\* or an id no tab has.
C39_StoredSessionsAreInactiveTabs ==
  DOMAIN tabSnapshots = {tabs[i].id : i \in 1..Len(tabs)} \ {activeTabId}

\* Three tabs were opened, one was closed, and the first tab is on screen again:
\* the one stored session is that of the other tab left.
C39_Witness ==
  /\ Len(tabs) = 2
  /\ nextTabId > 3
  /\ activeTabId = tabs[1].id
  /\ DOMAIN tabSnapshots = {tabs[2].id}
  /\ \E id \in 1..(nextTabId - 1) :
       id \notin {tabs[1].id, tabs[2].id} /\ id \notin DOMAIN tabSnapshots

----------------------------------------------------------------------------
(* Tab isolation: two documents side by side, the session operations on the *)
(* one on screen, and switching between them                                *)

InitIso == StoreInit /\ scope = "iso" /\ obs = [left |-> <<>>, shown |-> [on |-> FALSE, expect |-> NoSession]]

NextIso ==
  \/ TbOpenTab
  \/ TbSwitchTab
  \/ TbCloseTab
  \/ TbUpdateCell
  \/ TbUndo
  \/ TbRedo
  \/ TbSetFilter
  \/ TbBeginBatch
  \/ TbCommitBatch
  \/ TbMarkSaved

SpecIso == InitIso /\ [][NextIso]_vars

\* C9: whatever is done to the active tab, every other tab's stored session, and
\* its dirty flag and path in the tab list, stay as they were when that tab was
\* last left, and a tab brought back to the screen shows exactly that session.
C9_TabsIsolated ==
  /\ \A i \in 1..Len(tabs) :
       tabs[i].id # activeTabId =>
         /\ tabs[i].id \in DOMAIN tabSnapshots
         /\ tabs[i].id \in DOMAIN obs.left
         /\ tabSnapshots[tabs[i].id] = obs.left[tabs[i].id]
         /\ tabs[i].dirty = obs.left[tabs[i].id].dirty
         /\ tabs[i].filePath = obs.left[tabs[i].id].filePath
  /\ obs.shown.on => LiveSession = obs.shown.expect

C9_Witness ==
  /\ obs.shown.on
  /\ LiveSession = obs.shown.expect
  /\ undoStack # <<>>
  /\ \E id \in DOMAIN tabSnapshots :
        tabSnapshots[id].undoStack # <<>> /\ tabSnapshots[id].rows # rows

----------------------------------------------------------------------------
(* Away and back: one tab left for another, the session operations on that  *)
(* other tab, and the switch back                                           *)

InitBack == StoreInit /\ scope = "back" /\ obs = NotAway

NextBack ==
  \/ TbOpenTab
  \/ TbSwitchTab
  \/ TbUpdateCell
  \/ TbUndo
  \/ TbRedo
  \/ TbSetFilter
  \/ TbBeginBatch
  \/ TbCommitBatch

SpecBack == InitBack /\ [][NextBack]_vars

\* C30: after a switch from tab A to tab B and, whatever was done on B, a switch
\* back to A, the headers, rows, filters, undo stack, redo stack, dirty flag
\* and batch state on screen are those A had when it was left.
C30_SwitchBackRestores ==
  obs.back =>
    /\ activeTabId = obs.tab
    /\ headers = obs.session.headers
    /\ rows = obs.session.rows
    /\ filters = obs.session.filters
    /\ undoStack = obs.session.undoStack
    /\ redoStack = obs.session.redoStack
    /\ dirty = obs.session.dirty
    /\ batchDepth = obs.session.batchDepth
    /\ batchLabel = obs.session.batchLabel
    /\ batchSnapshot = obs.session.batchSnapshot

\* A was left filtered, edited and inside a batch; B was edited twice or more
\* and is stored with other rows, no filter and no batch; A is on screen again.
C30_Witness ==
  /\ obs.back /\ obs.ops = MaxAwayOps
  /\ batchDepth = 1 /\ batchLabel = "Paste"
  /\ filters # NoFilters
  /\ undoStack # <<>>
  /\ dirty
  /\ LiveSession = obs.session
  /\ \E id \in DOMAIN tabSnapshots :
       /\ tabSnapshots[id].rows # rows
       /\ tabSnapshots[id].filters = NoFilters
       /\ tabSnapshots[id].batchDepth = 0
       /\ tabSnapshots[id].undoStack # undoStack

----------------------------------------------------------------------------
(* Saving (useFileHandlers.ts, save): the handler reads the snapshot of the   *)
(* session on screen, awaits the save dialog and the write of the file, and  *)
(* then calls markSaved; the calls of the store made by other handlers run   *)
(* while it waits.  obs.pc is the handler's position.                        *)

SavedAsPath == "c.csv"

\* The first document opened is a.csv, the second b.csv.
SvOpenTab ==
  \E d \in {IF nextTabId = 1 THEN DocA ELSE DocB} :
    nextTabId <= TabBound /\ openTab(d) /\ Observe(Call("openTab", d, 0))

\* save({saveAs}) up to its awaits: the snapshot and the target path are fixed.
SvBeginSave ==
  \E saveAs \in BOOLEAN :
    /\ obs.pc = "idle" /\ activeTabId # NoTab /\ obs.saves < MaxSaves
    /\ obs' = [obs EXCEPT !.pc = "writing",
                          !.saves = @ + 1,
                          !.completed = FALSE,
                          !.pre = NoSession,
                          !.snapshot = LiveSnapshot,
                          !.targetPath = IF filePath = NullPath \/ saveAs
                                         THEN SavedAsPath ELSE filePath,
                          !.tab = activeTabId]
    /\ UNCHANGED <<storeVars, now, threw, scope>>

\* The file is written and save resumes: markSaved(targetPath).
SvCompleteSave ==
  /\ obs.pc = "writing"
  /\ markSaved(obs.targetPath)
  /\ obs' = [obs EXCEPT !.pc = "idle",
                        !.completed = TRUE,
                        !.pre = StoreState,
                        !.disk = PutKey(@, obs.tab, <<obs.snapshot.headers, obs.snapshot.rows>>),
                        !.path = PutKey(@, activeTabId, obs.targetPath)]
  /\ scope' = scope

InitSave == StoreInit /\ scope = "save" /\ obs = NoSave

NextSave ==
  \/ SvOpenTab
  \/ TbSwitchTab
  \/ TbUpdateCell
  \/ TbUndo
  \/ TbRedo
  \/ SvBeginSave
  \/ SvCompleteSave

SpecSave == InitSave /\ [][NextSave]_vars

\* C34: the path of the session on screen is the path of its most recent load
\* or markSaved, whatever edits, undos and redos were made since.
C34_PathFollowsLoadAndSave ==
  activeTabId # NoTab => filePath = obs.path[activeTabId]

\* The tab list's entry of tab id.
TabOf(ts, id) == ts[FindTabIndex(ts, id) + 1]

\* C35: when a save completes after the user switched to another tab, the tab on
\* screen keeps its dirty flag and path, and the tab whose content was written
\* is the one marked clean.
C35_SaveMarksTheSavedTab ==
  obs.completed /\ activeTabId # obs.tab =>
    /\ dirty = obs.pre.session.dirty
    /\ filePath = obs.pre.session.filePath
    /\ TabOf(tabs, activeTabId) = TabOf(obs.pre.tabs, activeTabId)
    /\ ~tabSnapshots[obs.tab].dirty
    /\ ~TabOf(tabs, obs.tab).dirty

\* C36: a session that is not dirty, on screen or stored, holds the headers and
\* rows last loaded into it or last written from it.
C36_CleanMeansOnDisk ==
  /\ activeTabId # NoTab /\ ~dirty => Content = obs.disk[activeTabId]
  /\ \A id \in DOMAIN tabSnapshots :
       ~tabSnapshots[id].dirty =>
         <<tabSnapshots[id].headers, tabSnapshots[id].rows>> = obs.disk[id]

----------------------------------------------------------------------------
(* Closing and switching: tabs with documents, edits and undo, the last call *)
(* observed with the store it was made on                                   *)

LdOpenTab ==
  \E d \in {DocA, DocB} :
    nextTabId <= TabBound /\ openTab(d) /\ Observe(Call("openTab", d, 0))

InitClose == StoreInit /\ scope = "close" /\ obs = NoCall

NextClose ==
  \/ LdOpenTab
  \/ TbSwitchTab
  \/ TbCloseTab
  \/ TbUpdateCell
  \/ TbUndo

SpecClose == InitClose /\ [][NextClose]_vars

\* The last call was closeTab on the tab that was active.
ClosedActive ==
  /\ obs.call.op = "closeTab"
  /\ obs.call.row = obs.pre.activeTabId
  /\ \E k \in 1..Len(obs.pre.tabs) : obs.pre.tabs[k].id = obs.call.row

\* The position (from 1) of the closed tab in the list it was closed from.
ClosedAt == CHOOSE k \in 1..Len(obs.pre.tabs) : obs.pre.tabs[k].id = obs.call.row

\* C11: closing the active tab at position i of n > 1 tabs leaves the other tabs
\* in order, makes active the tab now at position i (the last one when i was the
\* last position) and puts that tab's stored session on screen; closing the only
\* tab leaves no headers, no rows, empty stacks, no filters, a clean flag and no
\* active tab.
C11_CloseActiveTab ==
  ClosedActive =>
    LET n == Len(obs.pre.tabs)
        rest == [k \in 1..(n - 1) |->
                   IF k < ClosedAt THEN obs.pre.tabs[k] ELSE obs.pre.tabs[k + 1]]
    IN IF n > 1
       THEN /\ tabs = rest
            /\ activeTabId = rest[IF ClosedAt <= n - 1 THEN ClosedAt ELSE n - 1].id
            /\ activeTabId \in DOMAIN obs.pre.tabSnapshots
            /\ LiveSession = obs.pre.tabSnapshots[activeTabId]
       ELSE /\ headers = <<>> /\ rows = <<>>
            /\ undoStack = <<>> /\ redoStack = <<>>
            /\ filters = NoFilters
            /\ ~dirty
            /\ tabs = <<>>
            /\ activeTabId = NoTab

\* The middle one of three tabs was closed while active, and its right neighbour
\* came to the screen with the history it was left with.
C11_Witness ==
  /\ ClosedActive
  /\ Len(obs.pre.tabs) = 3
  /\ ClosedAt = 2
  /\ activeTabId = obs.pre.tabs[3].id
  /\ undoStack # <<>>
  /\ obs.pre.session.undoStack = <<>>

\* C12: switchTab with an id that is not a stored inactive session (unknown, or
\* the active tab's own) leaves the whole store as it was.
C12_SwitchToUnknownIsNoop ==
  (obs.call.op = "switchTab" /\ obs.call.row \notin DOMAIN obs.pre.tabSnapshots)
    => StoreState = obs.pre

\* A switch to an id no tab has was made from a tab with unsaved edits, next to
\* a stored session.
C12_Witness ==
  /\ obs.call.op = "switchTab"
  /\ obs.call.row \notin DOMAIN obs.pre.tabSnapshots
  /\ obs.call.row # obs.pre.activeTabId
  /\ obs.pre.activeTabId # NoTab
  /\ DOMAIN obs.pre.tabSnapshots # {}
  /\ dirty

----------------------------------------------------------------------------
(* Loading: documents opened in tabs or loaded over the session on screen,  *)
(* which has edits, history, a filter or an open batch                      *)

LdSetData == \E d \in {DocA, DocB} : setData(d) /\ Observe(Call("setData", d, 0))

InitLoad == StoreInit /\ scope = "load" /\ obs = NoCall

NextLoad ==
  \/ LdOpenTab
  \/ LdSetData
  \/ TbUpdateCell
  \/ TbSetFilter
  \/ TbUndo
  \/ TbBeginBatch
  \/ TbCommitBatch

SpecLoad == InitLoad /\ [][NextLoad]_vars

\* C13: after openTab(doc) or setData(doc) the session on screen holds the
\* document's headers, rows, delimiter, newline and path, with empty undo and
\* redo stacks, no filters, a clean flag and batch depth 0.
C13_LoadResetsSession ==
  obs.call.op \in {"openTab", "setData"} =>
    /\ headers = obs.call.row.headers
    /\ rows = obs.call.row.rows
    /\ delimiter = obs.call.row.delimiter
    /\ newline = obs.call.row.newline
    /\ filePath = obs.call.row.filePath
    /\ undoStack = <<>> /\ redoStack = <<>>
    /\ filters = NoFilters
    /\ ~dirty
    /\ batchDepth = 0

\* A document was loaded over a session that had history, a filter and unsaved
\* edits.
C13_Witness ==
  /\ obs.call.op = "setData"
  /\ obs.pre.session.undoStack # <<>>
  /\ obs.pre.session.filters # NoFilters
  /\ obs.pre.session.dirty
  /\ obs.pre.session.headers # headers
  /\ undoStack = <<>> /\ filters = NoFilters /\ ~dirty

----------------------------------------------------------------------------
(* Moving rows and columns of a square document whose headers and cells are  *)
(* all different                                                            *)

DocM ==
  MkDoc([c \in 1..MaxMove |-> <<"h", Digit(c)>>],
        [r \in 1..MaxMove |-> [c \in 1..MaxMove |-> <<Digit(r), Digit(c)>>]],
        ",", "LF", "m.csv")

\* Range starts from the first position to one past the last; destinations from
\* the first position to one past the end.
MoveFrom == 0..MaxMove
MoveTo == 0..(MaxMove + 1)

MvOpenTab == nextTabId <= 1 /\ openTab(DocM) /\ Observe(Call("openTab", DocM, 0))

MvMoveRows ==
  \E a \in MoveFrom, t \in MoveTo : \E b \in {a, a + 1} :
    /\ moveRows(a, b, t)
    /\ Len(undoStack') <= HistBound
    /\ Observe(Call("moveRows", <<a, b, t>>, 0))

MvMoveColumns ==
  \E a \in MoveFrom, t \in MoveTo : \E b \in {a, a + 1} :
    /\ moveColumns(a, b, t)
    /\ Len(undoStack') <= HistBound
    /\ Observe(Call("moveColumns", <<a, b, t>>, 0))

MvUndo == undo /\ Observe(Call("undo", 0, 0))

InitMove == StoreInit /\ scope = "move" /\ obs = NoCall

NextMove ==
  \/ MvOpenTab
  \/ MvMoveRows
  \/ MvMoveColumns
  \/ MvUndo

SpecMove == InitMove /\ [][NextMove]_vars

\* What a no-op leaves alone: the snapshot, both stacks and the dirty flag.
Frame(s) ==
  <<s.headers, s.rows, s.delimiter, s.newline, s.filePath, s.undoStack, s.redoStack, s.dirty>>

Untouched == Frame(LiveSession) = Frame(obs.pre.session)

\* The last call moved rows or columns with a destination inside the range or
\* just after it.
MovedWithinZone ==
  /\ obs.call.op \in {"moveRows", "moveColumns"}
  /\ obs.call.row[1] <= obs.call.row[2]
  /\ obs.call.row[1] <= obs.call.row[3]
  /\ obs.call.row[3] <= obs.call.row[2] + 1

\* C14: moveRows and moveColumns with fromStart <= fromEnd and
\* fromStart <= toIndex <= fromEnd + 1 leave the snapshot, the undo stack, the
\* redo stack and the dirty flag unchanged; so do moveRows(2, 2, 2) and
\* moveRows(2, 2, 3).
C14_MoveWithinZoneIsNoop == MovedWithinZone => Untouched

\* moveRows(2, 2, 3) was called on a table that had been reordered and undone.
C14_Witness ==
  /\ obs.call.op = "moveRows"
  /\ obs.call.row = <<2, 2, 3>>
  /\ MovedWithinZone
  /\ obs.pre.session.redoStack # <<>>
  /\ obs.pre.session.dirty
  /\ Untouched

\* The last call was moveColumns with a range inside the columns and a
\* destination at a column or at the end, on a table whose rows were as long
\* as the header list.
MovedColumnsInRange ==
  /\ obs.call.op = "moveColumns"
  /\ 0 <= obs.call.row[1]
  /\ obs.call.row[1] <= obs.call.row[2]
  /\ obs.call.row[2] < Len(obs.pre.session.headers)
  /\ 0 <= obs.call.row[3]
  /\ obs.call.row[3] <= Len(obs.pre.session.headers)
  /\ Rectangular(obs.pre.session.headers, obs.pre.session.rows)

\* The one-to-one maps of the column positions 1..n onto themselves.
ColumnPermutations(n) ==
  {p \in [1..n -> 1..n] : \A i, j \in 1..n : p[i] = p[j] => i = j}

\* C15: an in-range moveColumns on a rectangular table applies one permutation
\* of the column positions to the headers and to every row, so every header
\* stays above its cells; after moveColumns(0, 0, 2) the header and the cells
\* that were at column 0 are at column 1.
C15_MoveColumnsKeepsPairing ==
  MovedColumnsInRange =>
    LET before == obs.pre.session
        n == Len(before.headers)
    IN /\ Len(headers) = n
       /\ Len(rows) = Len(before.rows)
       /\ \E p \in ColumnPermutations(n) :
            /\ \A c \in 1..n : headers[c] = before.headers[p[c]]
            /\ \A r \in 1..Len(rows) :
                 /\ Len(rows[r]) = n
                 /\ \A c \in 1..n : rows[r][c] = before.rows[r][p[c]]
       /\ obs.call.row = <<0, 0, 2>> =>
            /\ headers[2] = before.headers[1]
            /\ \A r \in 1..Len(rows) : rows[r][2] = before.rows[r][1]

\* Two columns were moved from the end to the front of a table whose columns
\* had been reordered before.
C15_Witness ==
  /\ MovedColumnsInRange
  /\ obs.call.row = <<1, 2, 0>>
  /\ obs.pre.session.headers # DocM.headers
  /\ headers # obs.pre.session.headers
  /\ headers[1] = obs.pre.session.headers[2]
  /\ \A r \in 1..Len(rows) : rows[r][1] = obs.pre.session.rows[r][2]

\* The call on record is a moveRows with in-range arguments that names a
\* destination outside the no-move zone.
MovedRowsOutsideZone ==
  /\ obs.call.op = "moveRows"
  /\ 0 <= obs.call.row[1]
  /\ obs.call.row[1] <= obs.call.row[2]
  /\ obs.call.row[2] < Len(obs.pre.session.rows)
  /\ 0 <= obs.call.row[3]
  /\ obs.call.row[3] <= Len(obs.pre.session.rows)
  /\ obs.call.row[3] < obs.call.row[1] \/ obs.call.row[3] > obs.call.row[2] + 1

\* A sequence without the `count` elements that follow its first `start` ones.
Without(seq, start, count) ==
  SubSeq(seq, 1, start) \o SubSeq(seq, start + count + 1, Len(seq))

\* C28: an in-range moveRows to a destination outside the no-move zone keeps the
\* row count, puts the moved rows in their order at consecutive positions, from
\* toIndex - count on when toIndex > fromStart and from toIndex on otherwise, and
\* keeps the other rows in their order.
C28_MoveRowsPermutes ==
  MovedRowsOutsideZone =>
    LET before == obs.pre.session.rows
        fromStart == obs.call.row[1]
        count == obs.call.row[2] - obs.call.row[1] + 1
        toIndex == obs.call.row[3]
        first == IF toIndex > fromStart THEN toIndex - count ELSE toIndex
    IN /\ Len(rows) = Len(before)
       /\ SubSeq(rows, first + 1, first + count) = SubSeq(before, fromStart + 1, fromStart + count)
       /\ Without(rows, first, count) = Without(before, fromStart, count)

\* The first two rows were moved to the end of a table of three.
C28_Witness ==
  /\ MovedRowsOutsideZone
  /\ obs.call.row = <<0, 1, 3>>
  /\ Len(rows) = 3
  /\ rows = <<obs.pre.session.rows[3], obs.pre.session.rows[1], obs.pre.session.rows[2]>>
  /\ rows[1] # rows[2] /\ rows[2] # rows[3] /\ rows[1] # rows[3]

----------------------------------------------------------------------------
(* Calls that change nothing: identity writes, an empty match list, undo and *)
(* redo with nothing on the stack, on a document with a null and a numeric  *)
(* cell                                                                     *)

DocN ==
  MkDoc(<< <<"x">>, <<"y">> >>, << <<Null, Num(5)>>, << <<"a">>, <<>> >> >>, ",", "LF", "n.csv")

FrameValues == {<<>>, <<"5">>, <<"x">>}

FrameMatches == {<<>>, << [row |-> 1, col |-> 0] >>, << [row |-> -1, col |-> 0], [row |-> 0, col |-> 1] >>}

FrOpenTab == nextTabId <= 1 /\ openTab(DocN) /\ Observe(Call("openTab", DocN, 0))

\* Writes to the cells and headers the table has.
FrUpdateCell ==
  \E r \in 0..(Len(rows) - 1), c \in 0..(Len(headers) - 1), v \in FrameValues :
    updateCell(r, c, v) /\ Within /\ Observe(Call("updateCell", <<r, c, v>>, 0))

FrUpdateHeader ==
  \E c \in 0..(Len(headers) - 1), v \in FrameValues :
    updateHeader(c, v) /\ Within /\ Observe(Call("updateHeader", <<c, v>>, 0))

FrReplaceAll ==
  \E m \in FrameMatches :
    replaceAll(<<"a">>, <<"b">>, m) /\ Within /\ Observe(Call("replaceAll", m, 0))

InitFrame == StoreInit /\ scope = "frame" /\ obs = NoCall

NextFrame ==
  \/ FrOpenTab
  \/ FrUpdateCell
  \/ FrUpdateHeader
  \/ FrReplaceAll
  \/ EdUndo
  \/ EdRedo

SpecFrame == InitFrame /\ [][NextFrame]_vars

\* C16: replaceAll with an empty match list leaves the snapshot, the undo
\* stack (no "Replace All" entry), the redo stack and the dirty flag unchanged.
C16_ReplaceAllNoMatchesIsNoop ==
  (obs.call.op = "replaceAll" /\ obs.call.row = <<>>) => Untouched

\* replaceAll was called with no matches on a clean document that had a redo
\* entry (which a "Replace All" entry would have cleared).
C16_Witness ==
  /\ obs.call.op = "replaceAll" /\ obs.call.row = <<>>
  /\ obs.pre.session.redoStack # <<>>
  /\ obs.pre.session.headers # <<>>
  /\ Untouched

\* The string of a cell as the claim counts it: null is the empty string, a
\* number its digits.
Stringified(cell) ==
  IF cell = Null THEN <<>>
  ELSE IF cell # <<>> /\ cell[1] = "number" THEN Tail(cell) ELSE cell

\* The last call was updateCell(r, c, v) on a cell the table had, whose string
\* was v already.
WroteSameCell ==
  /\ obs.call.op = "updateCell"
  /\ LET r == obs.call.row[1] + 1
         c == obs.call.row[2] + 1
         rs == obs.pre.session.rows
     IN /\ r \in 1..Len(rs)
        /\ rs[r] # Hole /\ rs[r] # UndefRow
        /\ c \in 1..Len(rs[r])
        /\ rs[r][c] # Undef
        /\ Stringified(rs[r][c]) = obs.call.row[3]

\* The last call was updateHeader(c, v) on a header that was v already.
WroteSameHeader ==
  /\ obs.call.op = "updateHeader"
  /\ obs.call.row[1] + 1 \in 1..Len(obs.pre.session.headers)
  /\ obs.pre.session.headers[obs.call.row[1] + 1] = obs.call.row[2]

\* C17: updateCell(row, col, v) on an existing cell whose string (null counted
\* as empty) is v, and updateHeader(col, v) on a header that is v, leave the
\* snapshot, the undo stack, the redo stack and the dirty flag unchanged.
C17_IdentityWriteIsNoop == (WroteSameCell \/ WroteSameHeader) => Untouched

\* The empty string was written to a null cell of a clean document that had just
\* been loaded.
C17_Witness ==
  /\ WroteSameCell
  /\ obs.pre.session.rows[obs.call.row[1] + 1][obs.call.row[2] + 1] = Null
  /\ ~dirty
  /\ undoStack = <<>>
  /\ Untouched

\* C18: undo with an empty undo stack and redo with an empty redo stack leave
\* the snapshot, both stacks and the dirty flag unchanged.
C18_EmptyUndoRedoIsNoop ==
  /\ (obs.call.op = "undo" /\ obs.pre.session.undoStack = <<>>) => Untouched
  /\ (obs.call.op = "redo" /\ obs.pre.session.redoStack = <<>>) => Untouched

\* undo was called on a clean, freshly loaded document with nothing to undo.
C18_Witness ==
  /\ obs.call.op = "undo"
  /\ obs.pre.session.undoStack = <<>>
  /\ obs.pre.session.headers # <<>>
  /\ ~obs.pre.session.dirty
  /\ Untouched

----------------------------------------------------------------------------
(* Batch depth: nested batches, commits with and without an open batch,     *)
(* edits, undo and redo inside and outside a batch, in two tabs             *)

InitDepth == StoreInit /\ scope = "depth" /\ obs = NoCall

NextDepth ==
  \/ TbOpenTab
  \/ TbSwitchTab
  \/ TbCloseTab
  \/ TbUpdateCell
  \/ EdUndo
  \/ EdRedo
  \/ BtBeginBatch
  \/ TbCommitBatch

SpecDepth == InitDepth /\ [][NextDepth]_vars

\* The last call was commitBatch with no batch open and no pre-batch snapshot.
CommittedAtDepthZero ==
  /\ obs.call.op = "commitBatch"
  /\ obs.pre.session.batchDepth = 0
  /\ obs.pre.session.batchSnapshot = NoSnapshot

\* C19: the batch depth of the session on screen and of every stored session is
\* never negative, and a commitBatch at depth 0 with no pre-batch snapshot leaves
\* the depth at 0 and the undo stack as it was.
C19_BatchDepthNeverNegative ==
  /\ batchDepth >= 0
  /\ \A id \in DOMAIN tabSnapshots : tabSnapshots[id].batchDepth >= 0
  /\ CommittedAtDepthZero =>
       /\ batchDepth = 0
       /\ undoStack = obs.pre.session.undoStack

\* commitBatch was called with no batch open on a tab with history, while the
\* other tab had been left inside a nested batch.
C19_Witness ==
  /\ CommittedAtDepthZero
  /\ batchDepth = 0
  /\ undoStack # <<>>
  /\ undoStack = obs.pre.session.undoStack
  /\ \E id \in DOMAIN tabSnapshots : tabSnapshots[id].batchDepth = MaxDepth

----------------------------------------------------------------------------
(* The filtered view (renderer/state/filtering.ts).  Strings are over the    *)
(* digits, the letters of UpperLetters and LowerLetters, the space, the     *)
(* signs + - . / and the comparison signs.  The space is the only white     *)
(* space.  Numbers are exact decimals (the inputs are far from the limits   *)
(* of a double).  Dates are date-only forms; the inputs have two-digit      *)
(* months and days, the forms whose value ECMAScript fixes (UTC midnight).  *)

\* String.prototype.trim
RECURSIVE TrimStart(_)
TrimStart(str) ==
  IF str # <<>> /\ Head(str) = " " THEN TrimStart(Tail(str)) ELSE str

RECURSIVE TrimEnd(_)
TrimEnd(str) ==
  IF str # <<>> /\ str[Len(str)] = " " THEN TrimEnd(SubSeq(str, 1, Len(str) - 1)) ELSE str

Trim(str) == TrimEnd(TrimStart(str))

ToLowerCase(str) == [k \in 1..Len(str) |-> Lower(str[k])]

\* String.prototype.includes
Includes(str, part) ==
  \E k \in 0..(Len(str) - Len(part)) : SubSeq(str, k + 1, k + Len(part)) = part

IsDigit(ch) == ch \in {"0", "1", "2", "3", "4", "5", "6", "7", "8", "9"}

\* Number(digits)
RECURSIVE DigitsToNat(_)
DigitsToNat(str) ==
  IF str = <<>> THEN 0
  ELSE 10 * DigitsToNat(SubSeq(str, 1, Len(str) - 1)) + (CHOOSE n \in 0..9 : Digit(n) = str[Len(str)])

\* null, the result of a failed parse.
NotParsed == <<>>

AllDigits(str) == \A k \in 1..Len(str) : IsDigit(str[k])

\* The position of the first character of str that is in chars, 0 when none is.
FirstOf(str, chars) ==
  IF \E k \in 1..Len(str) : str[k] \in chars
  THEN CHOOSE k \in 1..Len(str) : str[k] \in chars /\ \A j \in 1..(k - 1) : str[j] \notin chars
  ELSE 0

Unsigned(str) == IF str # <<>> /\ str[1] \in {"-", "+"} THEN Tail(str) ELSE str

SignOf(str) == IF str # <<>> /\ str[1] = "-" THEN -1 ELSE 1

RECURSIVE Pow10(_)
Pow10(n) == IF n <= 0 THEN 1 ELSE 10 * Pow10(n - 1)

\* NUMBER_RE = /^[-+]?(?:\d+\.?\d*|\.\d+)(?:[eE][-+]?\d+)?$/ and Number(trimmed):
\* the decimal <<m, s>>, which is m / 10^s, or null.
parseNumber(value) ==
  LET trimmed == Trim(value)
      e == FirstOf(trimmed, {"e", "E"})
      mantissa == Unsigned(IF e = 0 THEN trimmed ELSE SubSeq(trimmed, 1, e - 1))
      exponent == IF e = 0 THEN <<>> ELSE SubSeq(trimmed, e + 1, Len(trimmed))
      dot == FirstOf(mantissa, {"."})
      int == IF dot = 0 THEN mantissa ELSE SubSeq(mantissa, 1, dot - 1)
      frac == IF dot = 0 THEN <<>> ELSE SubSeq(mantissa, dot + 1, Len(mantissa))
      accepted ==
        /\ AllDigits(int) /\ AllDigits(frac)
        /\ int # <<>> \/ frac # <<>>
        /\ e # 0 => Unsigned(exponent) # <<>> /\ AllDigits(Unsigned(exponent))
  IN IF accepted
     THEN <<SignOf(trimmed) * DigitsToNat(int \o frac),
            Len(frac) - SignOf(exponent) * DigitsToNat(Unsigned(exponent))>>
     ELSE NotParsed

\* ISO_DATE_RE on a date-only string, /^\d{4}[-/]\d{1,2}[-/]\d{1,2}$/: the
\* position of the second separator, 0 when the string has not that shape.
DateShape(str) ==
  LET Fits(k) ==
        /\ k \in {7, 8} /\ Len(str) \in {k + 1, k + 2}
        /\ AllDigits(SubSeq(str, 1, 4)) /\ str[5] \in {"-", "/"}
        /\ AllDigits(SubSeq(str, 6, k - 1)) /\ str[k] \in {"-", "/"}
        /\ AllDigits(SubSeq(str, k + 1, Len(str)))
  IN IF Len(str) >= 8 /\ \E k \in {7, 8} : Fits(k) THEN CHOOSE k \in {7, 8} : Fits(k) ELSE 0

\* parseDate: Date.parse orders dates by year, month and day; the value is a
\* position <<t>> in that order, or null when the shape, the month or the day
\* is not one of a date.
parseDate(value) ==
  LET trimmed == Trim(value)
      k == DateShape(trimmed)
      year == DigitsToNat(SubSeq(trimmed, 1, 4))
      month == DigitsToNat(SubSeq(trimmed, 6, k - 1))
      day == DigitsToNat(SubSeq(trimmed, k + 1, Len(trimmed)))
  IN IF k # 0 /\ month \in 1..12 /\ day \in 1..31
     THEN <<(year * 12 + (month - 1)) * 31 + (day - 1)>>
     ELSE NotParsed

matchContains(cell, filterValue) ==
  Includes(ToLowerCase(ToStr(cell)), ToLowerCase(filterValue))

\* trimmedQuery.match(/^(.+)\.\.(.+)$/): the position of the `..` that the
\* greedy first group leaves to the pattern (the last one with a character on
\* both sides), 0 when the query does not match.
BetweenAt(query) ==
  LET Splits(p) == p >= 2 /\ p + 2 <= Len(query) /\ query[p] = "." /\ query[p + 1] = "."
  IN IF \E p \in 1..Len(query) : Splits(p)
     THEN CHOOSE p \in 1..Len(query) : Splits(p) /\ \A q \in (p + 1)..Len(query) : ~Splits(q)
     ELSE 0

\* The comparator that /^(>=|<=|>|<|=)\s*(.+)$/ captures in a trimmed query, or
\* <<>> when the expression does not match: the two-character sign needs a
\* character after it, otherwise the one-character sign is tried.
ComparatorOf(query) ==
  IF Len(query) >= 3 /\ SubSeq(query, 1, 2) \in {<<">", "=">>, <<"<", "=">>}
  THEN SubSeq(query, 1, 2)
  ELSE IF Len(query) >= 2 /\ query[1] \in {">", "<", "="} THEN SubSeq(query, 1, 1)
  ELSE <<>>

\* The keyword that /^(before|after|on)\s+(.+)$/i captures in a trimmed query,
\* in lower case, or <<>> when the expression does not match.
KeywordOf(query) ==
  LET Keywords == {<<"b", "e", "f", "o", "r", "e">>, <<"a", "f", "t", "e", "r">>, <<"o", "n">>}
      Starts(kw) ==
        /\ Len(query) >= Len(kw) + 2
        /\ ToLowerCase(SubSeq(query, 1, Len(kw))) = kw
        /\ query[Len(kw) + 1] = " "
  IN IF \E kw \in Keywords : Starts(kw) THEN CHOOSE kw \in Keywords : Starts(kw) ELSE <<>>

\* a - b for two decimals, up to a positive factor: its sign orders them.
Difference(a, b) ==
  LET s == Max(a[2], b[2])
  IN a[1] * Pow10(s - a[2]) - b[1] * Pow10(s - b[2])

\* The order of two parsed values: numbers are decimals <<m, s>>, dates are
\* positions <<t>>.
Before(a, b) == IF Len(a) = 2 THEN Difference(a, b) < 0 ELSE a[1] < b[1]

Same(a, b) == ~Before(a, b) /\ ~Before(b, a)

\* A comparison that reads >= as >.
CompareStrict(op, a, b) ==
  CASE op \in {<<">">>, <<">", "=">>} -> Before(b, a)
    [] op = <<"<">> -> Before(a, b)
    [] op = <<"<", "=">> -> ~Before(b, a)
    [] OTHER -> Same(a, b)

Compare(op, a, b) ==
  CASE op = <<">">> -> Before(b, a)
    [] op = <<">", "=">> -> ~Before(a, b)
    [] op = <<"<">> -> Before(a, b)
    [] op = <<"<", "=">> -> ~Before(b, a)
    [] OTHER -> Same(a, b)

Verdict(b) == IF b THEN "true" ELSE "false"

\* evaluateNumericQuery: "true", "false", or "null" when the query has none of
\* the numeric forms.
evaluateNumericQuery(cell, query) ==
  LET cellValue == parseNumber(Trim(ToStr(cell)))
      trimmedQuery == Trim(query)
      between == BetweenAt(trimmedQuery)
      min == parseNumber(SubSeq(trimmedQuery, 1, between - 1))
      max == parseNumber(SubSeq(trimmedQuery, between + 2, Len(trimmedQuery)))
      op == ComparatorOf(trimmedQuery)
      operand == parseNumber(SubSeq(trimmedQuery, Len(op) + 1, Len(trimmedQuery)))
      exact == parseNumber(trimmedQuery)
  IN IF cellValue = NotParsed THEN "false"
     ELSE IF trimmedQuery = <<>> THEN "true"
     ELSE IF between # 0
          THEN IF min = NotParsed \/ max = NotParsed THEN "null"
               ELSE Verdict(~Before(cellValue, min) /\ ~Before(max, cellValue))
     ELSE IF op # <<>>
          THEN IF operand = NotParsed THEN "null"
               ELSE Verdict(Compare(op, cellValue, operand))
     ELSE IF exact # NotParsed THEN Verdict(Same(cellValue, exact))
     ELSE "null"

\* evaluateDateQuery past the cell's parse (lines 77-123).
DateQueryOn(cellValue, query) ==
  LET trimmedQuery == Trim(query)
      between == BetweenAt(trimmedQuery)
      min == parseDate(SubSeq(trimmedQuery, 1, between - 1))
      max == parseDate(SubSeq(trimmedQuery, between + 2, Len(trimmedQuery)))
      keyword == KeywordOf(trimmedQuery)
      named == parseDate(SubSeq(trimmedQuery, Len(keyword) + 1, Len(trimmedQuery)))
      op == ComparatorOf(trimmedQuery)
      operand == parseDate(SubSeq(trimmedQuery, Len(op) + 1, Len(trimmedQuery)))
      exact == parseDate(trimmedQuery)
  IN IF trimmedQuery = <<>> THEN "true"
     ELSE IF between # 0
          THEN IF min = NotParsed \/ max = NotParsed THEN "null"
               ELSE Verdict(~Before(cellValue, min) /\ ~Before(max, cellValue))
     ELSE IF keyword # <<>>
          THEN IF named = NotParsed THEN "null"
               ELSE IF keyword[1] = "b" THEN Verdict(Before(cellValue, named))
               ELSE IF keyword[1] = "a" THEN Verdict(Before(named, cellValue))
               ELSE Verdict(Same(cellValue, named))
     ELSE IF op # <<>>
          THEN IF operand = NotParsed THEN "null"
               ELSE Verdict(Compare(op, cellValue, operand))
     ELSE IF exact # NotParsed THEN Verdict(Same(cellValue, exact))
     ELSE "null"

\* A date evaluation that leaves a cell that is not a date to containment.
evaluateDateQueryLenient(cell, query) ==
  IF parseDate(Trim(ToStr(cell))) = NotParsed THEN "null"
  ELSE DateQueryOn(parseDate(Trim(ToStr(cell))), query)

\* evaluateDateQuery: "true", "false", or "null" when the query has none of the
\* date forms.
evaluateDateQuery(cell, query) ==
  IF parseDate(Trim(ToStr(cell))) = NotParsed THEN "false"
  ELSE DateQueryOn(parseDate(Trim(ToStr(cell))), query)

\* An evaluation in which a typed column has no containment fallback.
evaluateCellFilterTypedOnly(cell, filterValue, inferredType) ==
  IF Trim(filterValue) = <<>> THEN TRUE
  ELSE IF inferredType = "number" THEN evaluateNumericQuery(cell, filterValue) = "true"
  ELSE IF inferredType = "date" THEN evaluateDateQuery(cell, filterValue) = "true"
  ELSE matchContains(cell, filterValue)

\* evaluateCellFilter; `inferredType` is the column profile's type, "none" when
\* the column has no profile.
evaluateCellFilter(cell, filterValue, inferredType) ==
  IF Trim(filterValue) = <<>> THEN TRUE
  ELSE IF inferredType = "number"
       THEN IF evaluateNumericQuery(cell, filterValue) = "null"
            THEN matchContains(cell, filterValue)
            ELSE evaluateNumericQuery(cell, filterValue) = "true"
  ELSE IF inferredType = "date"
       THEN IF evaluateDateQuery(cell, filterValue) = "null"
            THEN matchContains(cell, filterValue)
            ELSE evaluateDateQuery(cell, filterValue) = "true"
  ELSE matchContains(cell, filterValue)

\* columnProfiles[c]?.inferredType
ProfileAt(columnProfiles, c) ==
  IF c >= 0 /\ c < Len(columnProfiles) THEN columnProfiles[c + 1] ELSE "none"

\* Entries that number the rows from one.
RowEntriesFromOne(rs) == [i \in 1..Len(rs) |-> [row |-> rs[i], index |-> i]]

\* rows.map((row, index) => ({row, index}))
RowEntries(rs) == [i \in 1..Len(rs) |-> [row |-> rs[i], index |-> i - 1]]

\* Object.entries(filters).filter(([, value]) => value?.trim().length), by column.
FilterEntries(fs) == {c \in DOMAIN fs : Len(Trim(fs[c])) # 0}

\* A view that keeps a row as soon as one filter accepts it.
buildFilteredRowEntriesAny(rs, fs, columnProfiles) ==
  LET Keep(e) ==
        \E c \in FilterEntries(fs) :
          evaluateCellFilter(JsGet(e.row, c), fs[c], ProfileAt(columnProfiles, c))
  IN IF FilterEntries(fs) = {} THEN RowEntries(rs) ELSE SelectSeq(RowEntries(rs), Keep)

buildFilteredRowEntries(rs, fs, columnProfiles) ==
  LET Keep(e) ==
        \A c \in FilterEntries(fs) :
          evaluateCellFilter(JsGet(e.row, c), fs[c], ProfileAt(columnProfiles, c))
  IN IF FilterEntries(fs) = {} THEN RowEntries(rs) ELSE SelectSeq(RowEntries(rs), Keep)

\* getFilteredRows of the store (part_002), on its rows and filters: the filters
\* of non-zero length, each by containment.
getFilteredRows(rs, fs) ==
  LET filterEntries == {c \in DOMAIN fs : Len(fs[c]) # 0}
      Keep(row) ==
        \A c \in filterEntries :
          Includes(ToLowerCase(ToStr(JsGet(row, c))), ToLowerCase(fs[c]))
  IN IF filterEntries = {} THEN rs ELSE SelectSeq(rs, Keep)

\* filteredRows of the grid (part_000): the entries of the rows that contain
\* every filter of non-zero length.
filteredRows(rs, fs) ==
  LET filterEntries == {c \in DOMAIN fs : Len(fs[c]) # 0}
      Keep(e) ==
        \A c \in filterEntries :
          Includes(ToLowerCase(ToStr(JsGet(e.row, c))), ToLowerCase(fs[c]))
  IN IF filterEntries = {} THEN RowEntries(rs) ELSE SelectSeq(RowEntries(rs), Keep)

\* sourceToFilteredIndex of the grid: map.set(entry.index, filteredIdx) for each
\* entry in order, so the last entry with a source index gives its position.
sourceToFilteredIndex(view) ==
  [s \in {view[k].index : k \in 1..Len(view)} |->
     CHOOSE p \in 0..(Len(view) - 1) :
       /\ view[p + 1].index = s
       /\ \A q \in (p + 1)..(Len(view) - 1) : view[q + 1].index # s]

\* The tables, filter expressions and column profiles the view is built from.
MaxFilterRows == 2

FilterCells == {Null, <<"A", "b">>, <<"5">>, <<"1", "0">>}

\* Rows of two cells, a row with no cell in the second column, and an empty row.
FilterRowInputs ==
  {<<>>, << <<"5">> >>} \cup {<<x, y>> : x \in FilterCells \ {<<"5">>}, y \in FilterCells}

FilterTableInputs ==
  UNION {[1..n -> FilterRowInputs] : n \in 0..MaxFilterRows}

FilterValues == {<<>>, <<" ">>, <<"a">>, <<">", "=", "1", "0">>}

FilterProfileInputs == {<<>>, <<"number">>, <<"number", "date">>, <<"none", "number">>}

NotBuilt(profiles) == [built |-> FALSE, view |-> <<>>, profiles |-> profiles]

\* The view is computed from the rows and filters of the store.
FlBuild ==
  /\ ~obs.built
  /\ obs' = [obs EXCEPT !.built = TRUE,
                        !.view = buildFilteredRowEntries(rows, filters, obs.profiles)]
  /\ UNCHANGED <<storeVars, now, threw, scope>>

FlSetFilter ==
  \E c \in 0..1, v \in FilterValues :
    /\ setFilter(c, v)
    /\ filters' # filters
    /\ obs' = NotBuilt(obs.profiles)
    /\ UNCHANGED <<now, scope>>

InitFilter ==
  /\ headers = << <<"x">>, <<"y">> >> /\ rows \in FilterTableInputs
  /\ delimiter = "," /\ newline = "LF"
  /\ filePath = NullPath
  /\ dirty = FALSE
  /\ meta = [rowCount |-> Len(rows), columnCount |-> 2]
  /\ filters = NoFilters
  /\ undoStack = <<>> /\ redoStack = <<>>
  /\ batchDepth = 0 /\ batchLabel = NullLabel /\ batchSnapshot = NoSnapshot
  /\ tabs = <<>> /\ activeTabId = NoTab /\ tabSnapshots = [k \in {} |-> 0]
  /\ nextTabId = 1
  /\ now = 0
  /\ threw = FALSE
  /\ scope = "filter"
  /\ \E p \in FilterProfileInputs : obs = NotBuilt(p)

NextFilter ==
  \/ FlBuild
  \/ FlSetFilter

SpecFilter == InitFilter /\ [][NextFilter]_vars

\* The columns whose filter expression has a character that is not a space.
NonBlankFilters == {c \in DOMAIN filters : \E k \in 1..Len(filters[c]) : filters[c][k] # " "}

\* Row i (from 1) satisfies the filter of every column that has a non-blank one.
SatisfiesAll(i) ==
  \A c \in NonBlankFilters :
    evaluateCellFilter(JsGet(rows[i], c), filters[c], ProfileAt(obs.profiles, c))

\* Row i (from 1) is in the view, paired with its own index.
InView(i) ==
  \E k \in 1..Len(obs.view) : obs.view[k].index = i - 1 /\ obs.view[k].row = rows[i]

\* C20: a row is in the filtered view exactly when it satisfies the filter of
\* every column whose filter expression is non-blank; with no non-blank filter
\* the view is all rows in their order, each paired with its own index.
C20_FilteredViewIsConjunction ==
  obs.built =>
    /\ \A i \in 1..Len(rows) : InView(i) <=> SatisfiesAll(i)
    /\ \A k \in 1..Len(obs.view) :
         obs.view[k].index + 1 \in 1..Len(rows) /\ InView(obs.view[k].index + 1)
    /\ NonBlankFilters = {} =>
         obs.view = [i \in 1..Len(rows) |-> [row |-> rows[i], index |-> i - 1]]

\* Two filters are set; one row passes both and is shown, the other passes the
\* first filter only and is hidden.
C20_Witness ==
  /\ obs.built
  /\ NonBlankFilters = {0, 1}
  /\ Len(rows) = 2
  /\ InView(2) /\ ~InView(1)
  /\ evaluateCellFilter(JsGet(rows[1], 0), filters[0], ProfileAt(obs.profiles, 0))
  /\ ~evaluateCellFilter(JsGet(rows[1], 1), filters[1], ProfileAt(obs.profiles, 1))

----------------------------------------------------------------------------
(* Typed filters: one column with a number or date profile, one filter.     *)

\* The columns filtered: the cells are the column 0 of one-column rows.
ColNumbers == << <<<<"5">>>>, <<<<"1", "0">>>>, <<<<"1", "5">>>>, <<<<"a", "b", "c">>>> >>
ColDates == << <<<<"2", "0", "2", "5", "-", "0", "1", "-", "0", "1">>>>, <<<<"2", "0", "2", "5", "-", "1", "2", "-", "3", "1">>>>, <<<<"n", "o", "t", " ", "a", " ", "d", "a", "t", "e">>>> >>
ColMixed == << <<Null>>, <<Num(10)>>, <<<<"-", "5">>>>, <<<<"1", ".", "5", "e", "1">>>> >>

TypedColumns == {ColNumbers, ColDates, ColMixed}

TypedQueries ==
  {<<">", "=", "1", "0">>,
   <<" ", ">", "=", " ", "1", "0", " ">>,
   <<">", "1", "0">>,
   <<"<", "1", "0">>,
   <<"<", "=", "1", "0">>,
   <<"=", "1", "0">>,
   <<"=", " ", "x">>,
   <<"1", "0">>,
   <<"5", ".", ".", "1", "0">>,
   <<"a", ".", ".", "1", "0">>,
   <<"-">>,
   <<" ">>,
   <<"e">>,
   <<"b", "e", "f", "o", "r", "e", " ", "2", "0", "2", "5", "-", "0", "6", "-", "0", "1">>,
   <<"A", "f", "t", "e", "r", " ", "2", "0", "2", "5", "-", "0", "6", "-", "0", "1">>,
   <<"o", "n", " ", "2", "0", "2", "5", "/", "1", "2", "/", "3", "1">>,
   <<">", "=", "2", "0", "2", "5", "-", "1", "2", "-", "3", "1">>,
   <<"2", "0", "2", "5", "-", "0", "1", "-", "0", "1">>,
   <<"2", "0", "2", "5", "-", "0", "1", "-", "0", "1", ".", ".", "2", "0", "2", "5", "-", "0", "6", "-", "0", "1">>,
   <<"b", "e", "f", "o", "r", "e", " ", "x">>,
   <<"2", "0", "2", "5">>}

TypedTypes == {"number", "date"}

TySetFilter ==
  \E v \in TypedQueries :
    /\ filters = NoFilters
    /\ setFilter(0, v)
    /\ obs' = NotBuilt(obs.profiles)
    /\ UNCHANGED <<now, scope>>

InitTyped ==
  /\ headers = << <<"x">> >> /\ rows \in TypedColumns
  /\ delimiter = "," /\ newline = "LF"
  /\ filePath = NullPath
  /\ dirty = FALSE
  /\ meta = [rowCount |-> Len(rows), columnCount |-> 1]
  /\ filters = NoFilters
  /\ undoStack = <<>> /\ redoStack = <<>>
  /\ batchDepth = 0 /\ batchLabel = NullLabel /\ batchSnapshot = NoSnapshot
  /\ tabs = <<>> /\ activeTabId = NoTab /\ tabSnapshots = [k \in {} |-> 0]
  /\ nextTabId = 1
  /\ now = 0
  /\ threw = FALSE
  /\ scope = "typed"
  /\ \E t \in TypedTypes : obs = NotBuilt(<<t>>)

\* Save Filtered As reads getFilteredRows() while the grid shows the view.
TyGetFilteredRows ==
  /\ obs.built /\ "saved" \notin DOMAIN obs
  /\ obs' = [built |-> TRUE, view |-> obs.view, profiles |-> obs.profiles,
             saved |-> getFilteredRows(rows, filters), pre |-> StoreState]
  /\ UNCHANGED <<storeVars, now, threw, scope>>

NextTyped ==
  \/ FlBuild
  \/ TySetFilter
  \/ TyGetFilteredRows

SpecTyped == InitTyped /\ [][NextTyped]_vars

\* The view of the column was built with the filter `query` under profile `type`.
Filtered(type) == obs.built /\ obs.profiles = <<type>> /\ 0 \in DOMAIN filters

\* The cell of row i (from 1) and whether the view shows the row.
CellOf(i) == JsGet(rows[i], 0)

Shown(i) == \E k \in 1..Len(obs.view) : obs.view[k].index = i - 1

\* The cell's value under the column's type, NotParsed when it has none.
TypedValue(type, text) == IF type = "number" THEN parseNumber(text) ELSE parseDate(text)

CellValueOf(type, i) == TypedValue(type, ToStr(CellOf(i)))

Comparators == {<<">">>, <<">", "=">>, <<"<">>, <<"<", "=">>, <<"=">>}

\* The readings of an expression as a comparator followed by a value of the type.
ComparatorReadings(type, query) ==
  {r \in [op : Comparators, at : 1..Len(Trim(query))] :
     /\ SubSeq(Trim(query), 1, r.at) = r.op
     /\ TypedValue(type, SubSeq(Trim(query), r.at + 1, Len(Trim(query)))) # NotParsed}

OperandOf(type, query, r) == TypedValue(type, SubSeq(Trim(query), r.at + 1, Len(Trim(query))))

Satisfies(op, a, b) ==
  CASE op = <<">">> -> Before(b, a)
    [] op = <<">", "=">> -> Before(b, a) \/ Same(a, b)
    [] op = <<"<">> -> Before(a, b)
    [] op = <<"<", "=">> -> Before(a, b) \/ Same(a, b)
    [] OTHER -> Same(a, b)

IsRange(type, query) ==
  \E p \in 2..(Len(Trim(query)) - 2) :
    /\ SubSeq(Trim(query), p, p + 1) = <<".", ".">>
    /\ TypedValue(type, SubSeq(Trim(query), 1, p - 1)) # NotParsed
    /\ TypedValue(type, SubSeq(Trim(query), p + 2, Len(Trim(query)))) # NotParsed

IsKeyworded(type, query) ==
  /\ type = "date"
  /\ \E p \in 3..(Len(Trim(query)) - 1) :
       /\ ToLowerCase(SubSeq(Trim(query), 1, p - 1)) \in {<<"b", "e", "f", "o", "r", "e">>, <<"a", "f", "t", "e", "r">>, <<"o", "n">>}
       /\ Trim(query)[p] = " "
       /\ parseDate(SubSeq(Trim(query), p + 1, Len(Trim(query)))) # NotParsed

IsTypedForm(type, query) ==
  \/ IsRange(type, query)
  \/ IsKeyworded(type, query)
  \/ ComparatorReadings(type, query) # {}
  \/ TypedValue(type, query) # NotParsed

\* Where the cell parses and the expression has no typed form, the row is shown
\* exactly when the cell's string contains the expression, ignoring case.
FallsBackToContainment(type) ==
  \A i \in 1..Len(rows) :
    CellValueOf(type, i) # NotParsed =>
      (Shown(i) <=> Includes(ToLowerCase(ToStr(CellOf(i))), ToLowerCase(filters[0])))

\* C23 as stated: on a column typed number or date, when the cell parses as the
\* column's type and the filter expression has none of the typed forms, the
\* result is the containment of the expression in the cell's string.
C23_UntypedQueryIsContainment ==
  \A type \in TypedTypes :
    Filtered(type) /\ ~IsTypedForm(type, filters[0]) => FallsBackToContainment(type)

\* C23: the same for a filter expression that is not blank (a blank expression
\* matches every cell).
C23_UntypedNonBlankQueryIsContainment ==
  \A type \in TypedTypes :
    Filtered(type) /\ Trim(filters[0]) # <<>> /\ ~IsTypedForm(type, filters[0]) =>
      FallsBackToContainment(type)

\* A date column searched by the text 2025: no date form, the two dates of 2025
\* are shown.
C23_Witness ==
  /\ Filtered("date")
  /\ rows = ColDates /\ filters[0] = <<"2", "0", "2", "5">>
  /\ ~IsTypedForm("date", filters[0])
  /\ Shown(1) /\ Shown(2) /\ ~Shown(3)

\* C24 as stated: the rows handed to Save Filtered As are the rows of the
\* filtered view, in order, and producing them leaves the session unchanged.
C24_SavedRowsAreTheView ==
  "saved" \in DOMAIN obs =>
    /\ obs.saved = [k \in 1..Len(obs.view) |-> obs.view[k].row]
    /\ StoreState = obs.pre

\* The entries of `view` are rows of the table at their source indices, in
\* increasing order of source index, and the reverse lookup inverts the view.
ViewIndexesSources(view) ==
  LET lookup == sourceToFilteredIndex(view)
  IN /\ \A k \in 1..Len(view) :
          /\ view[k].index \in 0..(Len(rows) - 1)
          /\ view[k].row = rows[view[k].index + 1]
     /\ \A k \in 1..(Len(view) - 1) : view[k].index < view[k + 1].index
     /\ \A src \in 0..Len(rows), p \in 0..Len(rows) :
          (src \in DOMAIN lookup /\ lookup[src] = p) <=>
            (p < Len(view) /\ view[p + 1].index = src)
     /\ \A src \in 0..(Len(rows) - 1) :
          (\A k \in 1..Len(view) : view[k].index # src) => src \notin DOMAIN lookup

\* C31: in every filtered view (the typed view and the grid's own) each
\* entry's row is the row at its source index in the table, the source indices
\* increase strictly along the view, the reverse lookup of a source index is
\* position p exactly when the entry at p has that index, and a hidden row has
\* no position.
C31_ViewIndexesSources ==
  obs.built =>
    /\ ViewIndexesSources(obs.view)
    /\ ViewIndexesSources(filteredRows(rows, filters))

\* `>=10` over 5, 10, 15, abc: the view is rows 1 and 2 at positions 0 and 1,
\* rows 0 and 3 are hidden; the grid's view is empty.
C31_Witness ==
  /\ Filtered("number")
  /\ rows = ColNumbers /\ filters[0] = <<">", "=", "1", "0">>
  /\ Len(obs.view) = 2
  /\ sourceToFilteredIndex(obs.view) = (1 :> 0) @@ (2 :> 1)
  /\ filteredRows(rows, filters) = <<>>
  /\ ViewIndexesSources(obs.view)

----------------------------------------------------------------------------
(* Filters next to column edits: filters set on a one-column or two-column   *)
(* document, columns inserted, removed and moved, undo and redo              *)

KpOpenTab ==
  \E d \in {DocA, DocT} :
    nextTabId <= 1 /\ openTab(d) /\ Observe(Call("openTab", d, 0))

KpSetFilter ==
  \E c \in 0..1, v \in {<<>>, <<"a">>} :
    setFilter(c, v) /\ Observe(Call("setFilter", <<c, v>>, 0))

InitKeep == StoreInit /\ scope = "keep" /\ obs = NoCall

NextKeep ==
  \/ KpOpenTab
  \/ KpSetFilter
  \/ EdInsertColumnAt
  \/ EdRemoveColumn
  \/ EdMoveColumns
  \/ EdUndo
  \/ EdRedo

SpecKeep == InitKeep /\ [][NextKeep]_vars

\* C38: insertColumnAt, removeColumn, moveColumns, undo and redo leave the
\* filter map as it was, each filter at its column position; setFilter sets the
\* filter of its column and leaves the snapshot, the undo and redo stacks and
\* the dirty flag as they were.
C38_FiltersChangeOnlyBySetFilter ==
  /\ obs.call.op \in {"insertColumnAt", "removeColumn", "moveColumns", "undo", "redo"} =>
       filters = obs.pre.session.filters
  /\ obs.call.op = "setFilter" =>
       /\ filters = PutKey(obs.pre.session.filters, obs.call.row[1], obs.call.row[2])
       /\ headers = obs.pre.session.headers
       /\ rows = obs.pre.session.rows
       /\ delimiter = obs.pre.session.delimiter
       /\ newline = obs.pre.session.newline
       /\ filePath = obs.pre.session.filePath
       /\ undoStack = obs.pre.session.undoStack
       /\ redoStack = obs.pre.session.redoStack
       /\ dirty = obs.pre.session.dirty

\* The first of two columns was removed while the second one had a filter: the
\* filter is still at position 1, where no column is left.
C38_Witness ==
  /\ obs.call.op = "removeColumn" /\ obs.call.col = 0
  /\ Len(obs.pre.session.headers) = 2 /\ Len(headers) = 1
  /\ DOMAIN filters = {1} /\ filters[1] = <<"a">>
  /\ filters = obs.pre.session.filters

----------------------------------------------------------------------------
(* Cut of a cell range under filters (part_000, handleCopy and handleCut):  *)
(* the range is in source indices, the grid's view is filteredRows.         *)

\* getSelectionBounds of a range, as the record {minRow, maxRow, minCol, maxCol}.
CutRanges(rs, hs) ==
  {b \in [minRow : 0..(Len(rs) - 1), maxRow : 0..(Len(rs) - 1),
          minCol : 0..(Len(hs) - 1), maxCol : 0..(Len(hs) - 1)] :
     b.minRow <= b.maxRow /\ b.minCol <= b.maxCol}

\* handleCopy: the entries of the view inside the range.
visibleRows(b) ==
  LET InRange(entry) == entry.index >= b.minRow /\ entry.index <= b.maxRow
  IN SelectSeq(filteredRows(rows, filters), InRange)

\* handleCopy: one list of cells per visible row (joined by tabs and newlines on
\* the clipboard).
CopiedText(b) ==
  [k \in 1..Len(visibleRows(b)) |->
     [c \in 1..(b.maxCol - b.minCol + 1) |->
        ToStr(JsGet(visibleRows(b)[k].row, b.minCol + c - 1))]]

\* handleCut's loops: every cell of the range, row by row.
CutCells(b) ==
  LET nc == b.maxCol - b.minCol + 1
      nr == b.maxRow - b.minRow + 1
  IN [k \in 1..(nr * nc) |->
        [row |-> b.minRow + ((k - 1) \div nc), col |-> b.minCol + ((k - 1) % nc)]]

\* onEditCell(row, col, '') for each cell in turn: updateCell returns early on a
\* cell that already reads '', and otherwise writes ''.
RECURSIVE ClearCells(_, _)
ClearCells(d, cells) ==
  IF cells = <<>> THEN d
  ELSE LET cell == Head(cells)
           d1 == IF ToStr(CellAt(d.rows, cell.row, cell.col)) = <<>> THEN d
                 ELSE MutUpdateCell(d, cell.row, cell.col, <<>>)
       IN ClearCells(d1, Tail(cells))

\* handleCut on a cell range, from no open batch: beginBatch('Cut'), the edits,
\* commitBatch.  The commit pushes one entry when an edit changed the table.
handleCut(b) ==
  LET next == ClearCells(LiveSnapshot, CutCells(b))
      changed == next # LiveSnapshot
  IN /\ batchDepth = 0
     /\ headers' = next.headers
     /\ rows' = next.rows
     /\ dirty' = (dirty \/ changed)
     /\ meta' = IF changed
                THEN [rowCount |-> Len(next.rows), columnCount |-> Len(next.headers)]
                ELSE meta
     /\ undoStack' = IF changed
                     THEN trimStack(Append(undoStack,
                            Entry(cloneSnapshot(LiveSnapshot), "Cut", now, NoKey)))
                     ELSE undoStack
     /\ redoStack' = IF changed THEN <<>> ELSE redoStack
     /\ batchDepth' = 0 /\ batchLabel' = NullLabel /\ batchSnapshot' = NoSnapshot
     /\ threw' = FALSE
     /\ UNCHANGED <<delimiter, newline, filePath, filters, tabs, activeTabId,
                    tabSnapshots, nextTabId, now>>

CutCellInputs == {Null, <<"a">>, <<"b">>}

CutTableInputs == [1..2 -> [1..2 -> CutCellInputs]]

NoCut == [cut |-> FALSE, range |-> <<>>, text |-> <<>>, copied |-> {}, pre |-> <<>>]

CtSetFilter ==
  \E v \in {<<>>, <<"a">>} :
    /\ setFilter(0, v)
    /\ filters' # filters
    /\ obs' = NoCut
    /\ UNCHANGED <<now, scope>>

\* Cut with a cell range selected: the clipboard text, the source indices of the
\* rows it was taken from, and the rows before the cut are kept for comparison.
CtCut ==
  \E b \in CutRanges(rows, headers) :
    /\ handleCut(b)
    /\ Within
    /\ obs' = [cut |-> TRUE, range |-> b, text |-> CopiedText(b),
               copied |-> {visibleRows(b)[k].index : k \in 1..Len(visibleRows(b))},
               pre |-> rows]
    /\ scope' = scope

InitCut ==
  /\ headers = << <<"x">>, <<"y">> >> /\ rows \in CutTableInputs
  /\ delimiter = "," /\ newline = "LF"
  /\ filePath = NullPath
  /\ dirty = FALSE
  /\ meta = [rowCount |-> Len(rows), columnCount |-> 2]
  /\ filters = NoFilters
  /\ undoStack = <<>> /\ redoStack = <<>>
  /\ batchDepth = 0 /\ batchLabel = NullLabel /\ batchSnapshot = NoSnapshot
  /\ tabs = <<>> /\ activeTabId = NoTab /\ tabSnapshots = [k \in {} |-> 0]
  /\ nextTabId = 1
  /\ now = 0
  /\ threw = FALSE
  /\ scope = "cut"
  /\ obs = NoCut

NextCut ==
  \/ CtSetFilter
  \/ CtCut

SpecCut == InitCut /\ [][NextCut]_vars

\* C37: after a Cut of a cell range, the cells that changed are cells of the
\* rows that were copied, in the columns of the range, every copied cell reads
\* empty, and the rows of the range that the filters hide are as they were.
C37_CutClearsWhatItCopied ==
  obs.cut =>
    /\ \A r \in 1..Len(rows), c \in 1..Len(headers) :
         rows[r][c] # obs.pre[r][c] =>
           (r - 1) \in obs.copied /\ (c - 1) \in obs.range.minCol..obs.range.maxCol
    /\ \A r \in 1..Len(rows), c \in 1..Len(headers) :
         (r - 1) \in obs.copied /\ (c - 1) \in obs.range.minCol..obs.range.maxCol =>
           ToStr(rows[r][c]) = <<>>
    /\ \A r \in 1..Len(rows) :
         (r - 1) \in obs.range.minRow..obs.range.maxRow /\ (r - 1) \notin obs.copied =>
           rows[r] = obs.pre[r]

----------------------------------------------------------------------------
(* Column profiles (src/unnamed/part_008, inferColumnProfiles).  A ratio    *)
(* c / n is the pair <<c, n>>; ratios are compared by cross-multiplication. *)
(* parseNumber and parseDate of part_008 have the patterns of filtering.ts  *)
(* and are given the trimmed string.                                        *)

MAX_INVALID_EXAMPLES == 3

\* TYPE_THRESHOLD = 0.98, in hundredths.
TYPE_THRESHOLD == 98

\* parseBoolean: <<TRUE>>, <<FALSE>> or null.
parseBoolean(value) ==
  IF ToLowerCase(value) \in {<<"t", "r", "u", "e">>, <<"y", "e", "s">>, <<"1">>} THEN <<TRUE>>
  ELSE IF ToLowerCase(value) \in {<<"f", "a", "l", "s", "e">>, <<"n", "o">>, <<"0">>} THEN <<FALSE>>
  ELSE NotParsed

\* A ratio test that needs more than the threshold.
ExceedsThreshold(count, nonNullCount) == 100 * count > TYPE_THRESHOLD * nonNullCount

\* count / nonNullCount >= TYPE_THRESHOLD
ReachesThreshold(count, nonNullCount) == 100 * count >= TYPE_THRESHOLD * nonNullCount

pickInferredType(nonNullCount, parseableCount) ==
  LET best == Max(parseableCount.number, Max(parseableCount.date, parseableCount.boolean))
  IN IF nonNullCount = 0 THEN [inferredType |-> "empty", confidence |-> <<1, 1>>]
     ELSE IF ReachesThreshold(parseableCount.number, nonNullCount)
          THEN [inferredType |-> "number", confidence |-> <<parseableCount.number, nonNullCount>>]
     ELSE IF ReachesThreshold(parseableCount.date, nonNullCount)
          THEN [inferredType |-> "date", confidence |-> <<parseableCount.date, nonNullCount>>]
     ELSE IF ReachesThreshold(parseableCount.boolean, nonNullCount)
          THEN [inferredType |-> "boolean", confidence |-> <<parseableCount.boolean, nonNullCount>>]
     ELSE IF 2 * best >= nonNullCount
          THEN [inferredType |-> "mixed", confidence |-> <<best, nonNullCount>>]
     ELSE [inferredType |-> "string", confidence |-> <<nonNullCount - best, nonNullCount>>]

\* The parsed values of a sequence of strings, in order, without the nulls.
RECURSIVE ParsedNumbers(_)
ParsedNumbers(values) ==
  IF values = <<>> THEN <<>>
  ELSE (IF parseNumber(Head(values)) = NotParsed THEN <<>> ELSE <<parseNumber(Head(values))>>)
       \o ParsedNumbers(Tail(values))

RECURSIVE ParsedDates(_)
ParsedDates(values) ==
  IF values = <<>> THEN <<>>
  ELSE (IF parseDate(Head(values)) = NotParsed THEN <<>> ELSE <<parseDate(Head(values))>>)
       \o ParsedDates(Tail(values))

\* Math.min(...values) and Math.max(...values) of a non-empty sequence.
RECURSIVE MinOf(_)
MinOf(values) ==
  IF Len(values) = 1 THEN values[1]
  ELSE IF Before(values[1], MinOf(Tail(values))) THEN values[1] ELSE MinOf(Tail(values))

RECURSIVE MaxOf(_)
MaxOf(values) ==
  IF Len(values) = 1 THEN values[1]
  ELSE IF Before(MaxOf(Tail(values)), values[1]) THEN values[1] ELSE MaxOf(Tail(values))

\* numericValues.reduce((acc, val) => acc + val, 0)
RECURSIVE SumOf(_)
SumOf(values) ==
  IF values = <<>> THEN <<0, 0>>
  ELSE LET rest == SumOf(Tail(values))
           s == Max(values[1][2], rest[2])
       IN <<values[1][1] * Pow10(s - values[1][2]) + rest[1] * Pow10(s - rest[2]), s>>

\* The profile of column `columnIndex`.  The mean is held as the sum and the
\* count it divides; a date statistic is held as the position that
\* toISOString() formats.
ColumnProfileOf(rs, columnIndex) ==
  LET values == [i \in 1..Len(rs) |-> Trim(ToStr(JsGet(rs[i], columnIndex)))]
      NonNull(v) == Len(v) # 0
      Invalid(v) ==
        /\ NonNull(v) /\ parseNumber(v) = NotParsed
        /\ parseDate(v) = NotParsed /\ parseBoolean(v) = NotParsed
      IsBool(v) == NonNull(v) /\ parseBoolean(v) # NotParsed
      numericValues == ParsedNumbers(values)
      dateValues == ParsedDates(values)
      nonNullCount == Len(SelectSeq(values, NonNull))
      parseableCount == [number |-> Len(numericValues), date |-> Len(dateValues),
                         boolean |-> Len(SelectSeq(values, IsBool))]
      picked == pickInferredType(nonNullCount, parseableCount)
      invalid == SelectSeq(values, Invalid)
      profile == [inferredType |-> picked.inferredType, confidence |-> picked.confidence,
                  nonNullCount |-> nonNullCount, nullCount |-> Len(rs) - nonNullCount,
                  parseableCount |-> parseableCount,
                  invalidExamples |-> SubSeq(invalid, 1, Min(Len(invalid), MAX_INVALID_EXAMPLES))]
  IN IF picked.inferredType = "number" /\ numericValues # <<>>
     THEN [numericStats |-> [min |-> MinOf(numericValues), max |-> MaxOf(numericValues),
                             mean |-> [sum |-> SumOf(numericValues), count |-> Len(numericValues)]]]
          @@ profile
     ELSE IF picked.inferredType = "date" /\ dateValues # <<>>
     THEN [dateStats |-> [minIso |-> MinOf(dateValues), maxIso |-> MaxOf(dateValues)]] @@ profile
     ELSE profile

inferColumnProfiles(hs, rs) == [c \in 1..Len(hs) |-> ColumnProfileOf(rs, c - 1)]

\* The inputs: counts that some column has (a cell is a date, or a number, a
\* boolean or both, or none of them), and the columns of at most
\* MaxProfileRows cells.
MaxProfileRows == 4

ProfileTotals == {0, 1, 2, 3, 50, 100}

ProfileCounts == {0, 1, 2, 3, 24, 25, 26, 48, 49, 50, 97, 98, 99, 100}

ProfileCountInputs ==
  {i \in [n : ProfileTotals, number : ProfileCounts, date : ProfileCounts, boolean : ProfileCounts] :
     i.date + Max(i.number, i.boolean) <= i.n}

ProfileCells == {Null, <<"1">>, <<"2">>, <<"3">>, <<"4">>, <<"f", "o", "o">>, <<"N", "o">>, <<"2", "0", "2", "5", "-", "0", "1", "-", "0", "1">>}

ProfileTables == UNION {[1..n -> {<<c>> : c \in ProfileCells}] : n \in 0..MaxProfileRows}

NotPicked == [none |-> TRUE]

PfPick ==
  /\ obs.kind = "counts" /\ ~obs.done
  /\ obs' = [obs EXCEPT !.done = TRUE, !.result = pickInferredType(obs.counts.n,
                           [number |-> obs.counts.number, date |-> obs.counts.date,
                            boolean |-> obs.counts.boolean])]
  /\ UNCHANGED <<storeVars, now, threw, scope>>

PfInfer ==
  /\ obs.kind = "column" /\ ~obs.done
  /\ obs' = [obs EXCEPT !.done = TRUE, !.result = inferColumnProfiles(headers, rows)]
  /\ UNCHANGED <<storeVars, now, threw, scope>>

InitProfile ==
  /\ \/ /\ rows \in ProfileTables
        /\ obs = [kind |-> "column", counts |-> NotPicked, result |-> NotPicked, done |-> FALSE]
     \/ /\ rows = <<>>
        /\ \E i \in ProfileCountInputs : obs = [kind |-> "counts", counts |-> i, result |-> NotPicked, done |-> FALSE]
  /\ headers = << <<"x">> >>
  /\ delimiter = "," /\ newline = "LF"
  /\ filePath = NullPath
  /\ dirty = FALSE
  /\ meta = [rowCount |-> Len(rows), columnCount |-> 1]
  /\ filters = NoFilters
  /\ undoStack = <<>> /\ redoStack = <<>>
  /\ batchDepth = 0 /\ batchLabel = NullLabel /\ batchSnapshot = NoSnapshot
  /\ tabs = <<>> /\ activeTabId = NoTab /\ tabSnapshots = [k \in {} |-> 0]
  /\ nextTabId = 1
  /\ now = 0
  /\ threw = FALSE
  /\ scope = "profile"

NextProfile ==
  \/ PfPick
  \/ PfInfer

SpecProfile == InitProfile /\ [][NextProfile]_vars

\* The type and confidence that the counts n, cN, cD, cB call for: p.confidence
\* is a ratio <<a, b>>.
IsRatio(r, a, b) == r[1] * b = a * r[2]

Classified(p, n, cN, cD, cB) ==
  LET best == Max(cN, Max(cD, cB))
  IN /\ n = 0 => p.inferredType = "empty" /\ IsRatio(p.confidence, 1, 1)
     /\ n > 0 /\ 100 * cN >= 98 * n => p.inferredType = "number"
     /\ n > 0 /\ 100 * cN < 98 * n /\ 100 * cD >= 98 * n => p.inferredType = "date"
     /\ n > 0 /\ 100 * cN < 98 * n /\ 100 * cD < 98 * n /\ 100 * cB >= 98 * n =>
          p.inferredType = "boolean"
     /\ n > 0 /\ 100 * best < 98 * n /\ 2 * best >= n =>
          p.inferredType = "mixed" /\ IsRatio(p.confidence, best, n)
     /\ n > 0 /\ 2 * best < n =>
          p.inferredType = "string" /\ IsRatio(p.confidence, n - best, n)

\* The cells of the column as the profile reads them.
ProfiledCells == [i \in 1..Len(rows) |-> Trim(ToStr(JsGet(rows[i], 0)))]

CountWhere(set) == Cardinality({i \in 1..Len(rows) : ProfiledCells[i] # <<>> /\ i \in set})

ColumnOf(cells) == [i \in 1..Len(cells) |-> <<cells[i]>>]

\* C25: the inferred type and confidence of a column follow from its counts of
\* non-null cells and of cells parseable as number, date and boolean, by the
\* thresholds 0.98 and 0.5 in the order number, date, boolean, mixed, string;
\* the column 1, 2, 3, 4 is a number column of confidence 1 with min 1, max 4
\* and mean 2.5, and the column 1, 2, foo, 4 is mixed.
C25_TypeFollowsFromCounts ==
  /\ obs.kind = "counts" /\ obs.done =>
       Classified(obs.result, obs.counts.n, obs.counts.number, obs.counts.date, obs.counts.boolean)
  /\ obs.kind = "column" /\ obs.done =>
       /\ Classified(obs.result[1],
                     CountWhere(1..Len(rows)),
                     CountWhere({i \in 1..Len(rows) : parseNumber(ProfiledCells[i]) # NotParsed}),
                     CountWhere({i \in 1..Len(rows) : parseDate(ProfiledCells[i]) # NotParsed}),
                     CountWhere({i \in 1..Len(rows) : parseBoolean(ProfiledCells[i]) # NotParsed}))
       /\ rows = ColumnOf(<<<<"1">>, <<"2">>, <<"3">>, <<"4">>>>) =>
            /\ obs.result[1].inferredType = "number"
            /\ IsRatio(obs.result[1].confidence, 1, 1)
            /\ Same(obs.result[1].numericStats.min, <<1, 0>>)
            /\ Same(obs.result[1].numericStats.max, <<4, 0>>)
            /\ Same(obs.result[1].numericStats.mean.sum,
                    <<25 * obs.result[1].numericStats.mean.count, 1>>)
       /\ rows = ColumnOf(<<<<"1">>, <<"2">>, <<"f", "o", "o">>, <<"4">>>>) => obs.result[1].inferredType = "mixed"

\* The column 1, 2, 3, 4 was profiled.
C25_Witness ==
  /\ obs.kind = "column" /\ obs.done
  /\ rows = ColumnOf(<<<<"1">>, <<"2">>, <<"3">>, <<"4">>>>)
  /\ obs.result[1].inferredType = "number"
  /\ obs.result[1].numericStats.mean.count = 4

====
